---- MODULE Spec2Model ----
(***************************************************************************)
(* A model of candle-metal-kernels/src/lib.rs: the Kernels registry (two   *)
(* RwLock-guarded caches, module -> Library and KernelKey -> pipeline),    *)
(* the load_library / load_function / load_pipeline path and the call_*    *)
(* dispatch entry points, run by several host threads.  The Metal device   *)
(* is the environment: each device call returns Ok, returns Err or         *)
(* unwinds.                                                                *)
(***************************************************************************)
EXTENDS Integers, Sequences, FiniteSets, TLC

\* ------------------------------------------------------------------ bounds
NThreads == 2

Threads == 1..NThreads

\* No thread, no device object (identities start at 1).
NoThread == 0
NoId == 0

\* Option<T>: None is the empty sequence, Some(x) the sequence <<x>>.
None == <<>>
Some(x) == <<x>>

\* ----------------------------------------------------------- data model
\* enum Source
Source ==
    {"Affine", "Indexing", "Unary", "Binary", "Ternary", "Cast", "Reduce",
     "MetalFlashAttention"}

\* enum MetalKernelError (the String payloads are left out)
MetalKernelError ==
    {"LockError", "LoadLibraryError", "LoadFunctionError",
     "FailedToCreateComputeFunction", "FailedToCreatePipeline"}

\* Mutant of get_library_source: every module is taken for source text.
get_library_source_AllText(source) == [def |-> "Source", asset |-> "TEXT"]

\* Kernels::get_library_source: the asset of a module and its kind
\* (LibraryDefinition::Source for text, LibraryDefinition::Data for a blob).
get_library_source(source) ==
    CASE source = "Affine"   -> [def |-> "Source", asset |-> "AFFINE"]
      [] source = "Unary"    -> [def |-> "Source", asset |-> "UNARY"]
      [] source = "Binary"   -> [def |-> "Source", asset |-> "BINARY"]
      [] source = "Ternary"  -> [def |-> "Source", asset |-> "TERNARY"]
      [] source = "Indexing" -> [def |-> "Source", asset |-> "INDEXING"]
      [] source = "Cast"     -> [def |-> "Source", asset |-> "CAST"]
      [] source = "Reduce"   -> [def |-> "Source", asset |-> "REDUCE"]
      [] source = "MetalFlashAttention" -> [def |-> "Data", asset |-> "MFA_LIB"]

\* enum ConstantValue: Float(f32) | Uint(u32) | UShort(u16) | Bool(bool).
\* A payload is a small natural number (0 and 1 for a bool); the float that
\* is not a number is NaN.
NaN == -1
ConstantValue(kind, v) == [kind |-> kind, v |-> v]

\* Mutant of ConstantValueEq: equality that, like the hash, ignores floats.
ConstantValueEq_FloatBlind(a, b) ==
    /\ a.kind = b.kind
    /\ (a.kind # "Float" => a.v = b.v)

\* #[derive(PartialEq)] on ConstantValue: same variant and equal payload;
\* f32 equality makes NaN unequal to itself.
ConstantValueEq(a, b) ==
    /\ a.kind = b.kind
    /\ a.v = b.v
    /\ ~(a.kind = "Float" /\ a.v = NaN)

\* impl Hash for ConstantValue: a float feeds nothing to the hasher, the
\* other variants feed their payload alone (4, 2 or 1 bytes wide, which the
\* variant's name stands for here).
ConstantValueHash(a) ==
    IF a.kind = "Float" THEN <<>> ELSE <<a.kind, a.v>>

\* struct ConstantValues(Vec<(ConstantValueId, ConstantValue)>), derived
\* PartialEq: same length and pairwise equal ids and values, in order.
ConstantValuesEq(c, d) ==
    /\ Len(c) = Len(d)
    /\ \A i \in 1..Len(c) :
          /\ c[i].id = d[i].id
          /\ ConstantValueEq(c[i].value, d[i].value)

\* derived Hash of ConstantValues: the length, then each id and value.
ConstantValuesHash(c) ==
    <<Len(c), [i \in 1..Len(c) |-> <<c[i].id, ConstantValueHash(c[i].value)>>]>>

\* struct KernelKey { name, constants: Option<ConstantValues> }
KernelKey(name, constants) == [name |-> name, constants |-> constants]

\* Mutant of KeyFromName: the conversion attaches a float constant.
KeyFromName_WithFloat(name) ==
    KernelKey(name, Some(
              << [id |-> <<"Index", 0>>, value |-> ConstantValue("Float", NaN)] >>))

\* impl From<&'static str> for KernelKey
KeyFromName(name) == KernelKey(name, None)

\* #[derive(PartialEq, Eq)] on KernelKey
KernelKeyEq(a, b) ==
    /\ a.name = b.name
    /\ (a.constants = None) = (b.constants = None)
    /\ a.constants # None => ConstantValuesEq(a.constants[1], b.constants[1])

\* #[derive(Hash)] on KernelKey
KernelKeyHash(a) ==
    <<a.name,
      IF a.constants = None THEN None ELSE Some(ConstantValuesHash(a.constants[1]))>>

\* HashMap<KernelKey, _> is the set of its entries [key, val]: a key that is
\* not equal to itself (a NaN constant) can sit in several entries.
\* HashMap::get: an entry of equal hash whose key compares equal.
MapFind(m, key) ==
    {e \in m : KernelKeyHash(e.key) = KernelKeyHash(key) /\ KernelKeyEq(e.key, key)}

\* Mutant of MapGet: a lookup that never finds the key.
MapGet_Miss(m, key) == NoId

MapGet(m, key) ==
    IF MapFind(m, key) = {} THEN NoId ELSE (CHOOSE e \in MapFind(m, key) : TRUE).val

\* Mutant of MapInsert: the insertion is lost.
MapInsert_Drop(m, key, v) == m

\* Mutant of MapInsert: the insertion drops the other entries.
MapInsert_Evict(m, key, v) == {[key |-> key, val |-> v]}

\* HashMap::insert: the value of an equal key is replaced, else an entry added.
MapInsert(m, key, v) ==
    IF MapFind(m, key) # {}
    THEN LET e0 == CHOOSE e \in MapFind(m, key) : TRUE
         IN  (m \ {e0}) \cup {[key |-> e0.key, val |-> v]}
    ELSE m \cup {[key |-> key, val |-> v]}

\* HashMap<Source, Library>: Source derives Eq and Hash, so plain equality.
\* Mutant of LibGet: a lookup that never finds the module.
LibGet_Miss(m, source) == NoId

LibGet(m, source) == IF source \in DOMAIN m THEN m[source] ELSE NoId

LibInsert(m, source, lib) ==
    [s \in DOMAIN m \cup {source} |-> IF s = source THEN lib ELSE m[s]]

EmptyMap == [x \in {} |-> NoId]
NoEntries == {}

\* ------------------------------------------------- dispatch grid and slots
\* The device limit pipeline.max_total_threads_per_threadgroup().
MaxThreadsPerThreadgroup == 4

Min(a, b) == IF a <= b THEN a ELSE b

RECURSIVE Product(_)
\* shape.iter().product()
Product(s) == IF Len(s) = 0 THEN 1 ELSE Head(s) * Product(Tail(s))

RECURSIVE NextPow2From(_, _)
NextPow2From(p, n) == IF p >= n THEN p ELSE NextPow2From(2 * p, n)

\* Mutant of next_power_of_two: the largest power of two <= n.
next_power_of_two_Down(n) ==
    IF n <= 1 THEN 1 ELSE NextPow2From(1, n + 1) \div 2

\* u64::next_power_of_two: the smallest power of two >= n (1 for n = 0).
next_power_of_two(n) == NextPow2From(1, n)

\* (MTLSize count, MTLSize size), or the computation aborted.
Grid(count, size) == [panic |-> FALSE, count |-> count, size |-> size]
GridPanic == [panic |-> TRUE, count |-> <<0, 0, 0>>, size |-> <<0, 0, 0>>]

\* Mutant of linear_split: the count is rounded down.
linear_split_Floor(M, length) ==
    LET width == Min(M, length)
    IN  IF width = 0
        THEN GridPanic
        ELSE Grid(<<length \div width, 1, 1>>, <<width, 1, 1>>)

\* Mutant of linear_split: the width is not clamped to the device limit.
linear_split_Unclamped(M, length) ==
    LET width == length
    IN  IF width = 0
        THEN GridPanic
        ELSE Grid(<<(length + width - 1) \div width, 1, 1>>, <<width, 1, 1>>)

\* linear_split: width = min(M, size), count = (size + width - 1) / width.
\* With size = 0 the width is 0 and the u64 expression aborts (subtraction
\* overflow in a checked build, division by zero otherwise).
linear_split(M, length) ==
    LET width == Min(M, length)
    IN  IF width = 0
        THEN GridPanic
        ELSE Grid(<<(length + width - 1) \div width, 1, 1>>, <<width, 1, 1>>)

\* The argument kinds of EncoderParam.
PUsize(n)        == <<"usize", n>>
PF32(x)          == <<"f32", x>>
PSlice(x)        == <<"slice", x>>
PBuffer(b)       == <<"buffer", b, 0>>
PBufferAt(b, o)  == <<"buffer", b, o>>

\* Mutant of set_params: the index is incremented before each set_param.
set_params_From1(params) == {<<i, params[i]>> : i \in 1..Len(params)}

\* set_params!: _index starts at 0 and is incremented after each set_param.
set_params(params) == {<<i - 1, params[i]>> : i \in 1..Len(params)}

\* The call_* entry points.
LinearOps ==
    {"call_unary_contiguous", "call_unary_strided", "call_binary_contiguous",
     "call_binary_strided", "call_cast_contiguous", "call_cast_strided",
     "call_affine", "call_affine_strided", "call_where_cond_strided",
     "call_index_select", "call_mfa_gemm"}

CallOps == LinearOps \cup {"call_reduce_contiguous", "call_last_softmax"}

\* The module each entry point passes to load_pipeline.
CallSource(op) ==
    CASE op \in {"call_unary_contiguous", "call_unary_strided"}   -> "Unary"
      [] op \in {"call_binary_contiguous", "call_binary_strided"} -> "Binary"
      [] op \in {"call_cast_contiguous", "call_cast_strided"}     -> "Cast"
      [] op \in {"call_reduce_contiguous", "call_last_softmax"}   -> "Reduce"
      [] op \in {"call_affine", "call_affine_strided"}            -> "Affine"
      [] op = "call_where_cond_strided"                           -> "Ternary"
      [] op = "call_index_select"                                 -> "Indexing"
      [] op = "call_mfa_gemm"                       -> "MetalFlashAttention"

\* Mutant of IndexSelectSizes: the right slice starts at dim, not after it.
IndexSelectSizes_Inclusive(r) ==
    IF r.dim >= Len(r.shape)
    THEN [panic |-> TRUE, left_size |-> 0, right_size |-> 0,
          src_dim_size |-> 0, dst_el |-> 0]
    ELSE LET left_size  == Product(SubSeq(r.shape, 1, r.dim))
             right_size == Product(SubSeq(r.shape, r.dim + 1, Len(r.shape)))
         IN  [panic |-> FALSE, left_size |-> left_size, right_size |-> right_size,
              src_dim_size |-> r.shape[r.dim + 1],
              dst_el |-> r.aux * left_size * right_size]

\* call_index_select: the sizes computed before load_pipeline.  The slices
\* shape[..dim], shape[dim + 1..] and the index shape[dim] abort for
\* dim >= shape.len().
IndexSelectSizes(r) ==
    IF r.dim >= Len(r.shape)
    THEN [panic |-> TRUE, left_size |-> 0, right_size |-> 0,
          src_dim_size |-> 0, dst_el |-> 0]
    ELSE LET left_size  == Product(SubSeq(r.shape, 1, r.dim))
             right_size == Product(SubSeq(r.shape, r.dim + 2, Len(r.shape)))
         IN  [panic |-> FALSE, left_size |-> left_size, right_size |-> right_size,
              src_dim_size |-> r.shape[r.dim + 1],
              dst_el |-> r.aux * left_size * right_size]

\* What an entry point computes before it calls load_pipeline.
PreLoadPanics(r) ==
    r.op = "call_index_select" /\ IndexSelectSizes(r).panic

\* What an entry point computes between load_pipeline and opening the
\* encoder: call_reduce_contiguous divides length by out_length.
PreEncoderPanics(r) ==
    r.op = "call_reduce_contiguous" /\ r.aux = 0

\* Mutant of LinearLength: a strided entry point hands over the rank.
LinearLength_Rank(r) ==
    CASE r.op \in {"call_unary_contiguous", "call_binary_contiguous",
                   "call_cast_contiguous", "call_affine"} -> r.length
      [] r.op = "call_index_select" -> IndexSelectSizes(r).dst_el
      [] OTHER -> Len(r.shape)

\* The element count a linear entry point hands to linear_split.
LinearLength(r) ==
    CASE r.op \in {"call_unary_contiguous", "call_binary_contiguous",
                   "call_cast_contiguous", "call_affine"} -> r.length
      [] r.op = "call_index_select" -> IndexSelectSizes(r).dst_el
      [] OTHER -> Product(r.shape)

\* Mutant of MfaGemmParams: the strides are bound before the shape.
MfaGemmParams_StridesFirst(r) ==
    <<PUsize(Product(r.shape)), PUsize(Len(r.shape)), PSlice("strides"),
      PSlice(r.shape), PBufferAt("input", "offset"),
      PBufferAt("output", "output_offset")>>

\* call_mfa_gemm: (length, num_dims, shape, strides, (input, offset),
\* (output, output_offset)).
MfaGemmParams(r) ==
    <<PUsize(Product(r.shape)), PUsize(Len(r.shape)), PSlice(r.shape),
      PSlice("strides"), PBufferAt("input", "offset"),
      PBufferAt("output", "output_offset")>>

\* The argument list each entry point hands to set_params!, in order.
CallParams(r) ==
    CASE r.op = "call_unary_contiguous" ->
            <<PUsize(r.length), PBuffer("input"), PBuffer("output")>>
      [] r.op = "call_unary_strided" ->
            <<PUsize(Product(r.shape)), PUsize(Len(r.shape)), PSlice(r.shape),
              PSlice("strides"), PBufferAt("input", "offset"),
              PBufferAt("output", "output_offset")>>
      [] r.op = "call_mfa_gemm" -> MfaGemmParams(r)
      [] r.op = "call_binary_contiguous" ->
            <<PUsize(r.length), PBuffer("left"), PBuffer("right"),
              PBuffer("output")>>
      [] r.op = "call_binary_strided" ->
            <<PUsize(Product(r.shape)), PUsize(Len(r.shape)), PSlice(r.shape),
              PSlice("left_strides"), PSlice("right_strides"),
              PBufferAt("left_input", "left_offset"),
              PBufferAt("right_input", "right_offset"), PBuffer("output")>>
      [] r.op = "call_cast_contiguous" ->
            <<PUsize(r.length), PBufferAt("input", "input_offset"),
              PBuffer("output")>>
      [] r.op = "call_cast_strided" ->
            <<PUsize(Product(r.shape)), PUsize(Len(r.shape)), PSlice(r.shape),
              PSlice("input_strides"), PBufferAt("input", "input_offset"),
              PBuffer("output")>>
      [] r.op = "call_reduce_contiguous" ->
            <<PUsize(r.length), PUsize(r.length \div r.aux),
              PBufferAt("input", "input_offset"), PBuffer("output")>>
      [] r.op = "call_last_softmax" ->
            <<PUsize(r.length), PUsize(r.aux), PBuffer("input"),
              PBuffer("output")>>
      [] r.op = "call_affine" ->
            <<PUsize(r.length), PF32("mul"), PF32("add"), PBuffer("input"),
              PBuffer("output")>>
      [] r.op = "call_affine_strided" ->
            <<PUsize(Product(r.shape)), PUsize(Len(r.shape)), PSlice(r.shape),
              PSlice("input_stride"), PF32("mul"), PF32("add"),
              PBufferAt("input", "input_offset"), PBuffer("output")>>
      [] r.op = "call_where_cond_strided" ->
            <<PUsize(Product(r.shape)), PUsize(Len(r.shape)), PSlice(r.shape),
              PSlice("cond_stride"), PSlice("left_stride"),
              PSlice("right_stride"), PBufferAt("cond", "cond_offset"),
              PBufferAt("left", "left_offset"),
              PBufferAt("right", "right_offset"), PBuffer("output")>>
      [] r.op = "call_index_select" ->
            LET z == IndexSelectSizes(r)
            IN  <<PUsize(z.dst_el), PUsize(z.left_size),
                  PUsize(z.src_dim_size), PUsize(z.right_size), PUsize(r.aux),
                  PBuffer("input"), PBuffer("ids"), PBuffer("output")>>

\* Mutant of CallGrid: the tree reduction does not halve the elements.
CallGrid_NoHalving(r, M) ==
    CASE r.op = "call_reduce_contiguous" ->
            LET elements_to_sum == r.length \div r.aux
            IN  Grid(<<r.aux, 1, 1>>,
                     <<next_power_of_two(Min(M, elements_to_sum)), 1, 1>>)
      [] r.op = "call_last_softmax" ->
            IF r.aux = 0
            THEN GridPanic
            ELSE Grid(<<r.length \div r.aux, 1, 1>>,
                      <<next_power_of_two(Min(M, r.aux)), 1, 1>>)
      [] OTHER -> linear_split(M, LinearLength(r))

\* Mutant of CallGrid: the softmax group count is rounded up.
CallGrid_CeilCount(r, M) ==
    CASE r.op = "call_reduce_contiguous" ->
            LET elements_to_sum == r.length \div r.aux
            IN  Grid(<<r.aux, 1, 1>>,
                     <<next_power_of_two(
                          Min(M, (elements_to_sum + 2 - 1) \div 2)), 1, 1>>)
      [] r.op = "call_last_softmax" ->
            IF r.aux = 0
            THEN GridPanic
            ELSE Grid(<<(r.length + r.aux - 1) \div r.aux, 1, 1>>,
                      <<next_power_of_two(Min(M, r.aux)), 1, 1>>)
      [] OTHER -> linear_split(M, LinearLength(r))

\* The grid an entry point computes after binding its arguments.
CallGrid(r, M) ==
    CASE r.op = "call_reduce_contiguous" ->
            LET elements_to_sum == r.length \div r.aux
            IN  Grid(<<r.aux, 1, 1>>,
                     <<next_power_of_two(
                          Min(M, (elements_to_sum + 2 - 1) \div 2)), 1, 1>>)
      [] r.op = "call_last_softmax" ->
            IF r.aux = 0
            THEN GridPanic
            ELSE Grid(<<r.length \div r.aux, 1, 1>>,
                      <<next_power_of_two(Min(M, r.aux)), 1, 1>>)
      [] OTHER -> linear_split(M, LinearLength(r))

\* ------------------------------------------------------------- requests
\* A command buffer as this code sees it: the compute encoders opened on it
\* so far, those not yet ended, the pipeline and the argument bindings
\* (slot, argument) of the latest encoder, the dispatches recorded, and the
\* encoder calls made on it, in order.
EmptyCmd == [scopes |-> 0, open |-> 0, pipeline |-> NoId, params |-> {},
             dispatches |-> <<>>, log |-> <<>>]

\* The encoder calls of an entry point up to the end of set_params! with k
\* arguments, and those after it.
EncoderSteps(k) ==
    <<"new_compute_command_encoder", "set_compute_pipeline_state">>
    \o [i \in 1..k |-> "set_param"]
DispatchSteps == <<"dispatch_thread_groups", "end_encoding">>

\* A command buffer on which the caller has already recorded one dispatch.
UsedCmd == [scopes |-> 1, open |-> 0, pipeline |-> 1, params |-> {},
            dispatches |-> <<Grid(<<1, 1, 1>>, <<1, 1, 1>>)>>,
            log |-> EncoderSteps(0) \o DispatchSteps]

\* The inputs the threads draw their calls from.
NoKey == KeyFromName("")

Req(op, source, key, length, shape, aux, dim, cb) ==
    [op |-> op, source |-> source, key |-> key, length |-> length,
     shape |-> shape, aux |-> aux, dim |-> dim, cb |-> cb]

\* A key with a specialization constant (built inside the crate).
GemmKey ==
    KernelKey("gemm", Some(
              << [id |-> <<"Index", 0>>, value |-> ConstantValue("Uint", 1)] >>))

ReqSources == {"Unary", "MetalFlashAttention"}
ReqKeys == {KeyFromName("cos_float"), GemmKey}
ReqBuffers == {EmptyCmd, UsedCmd}

\* call_<op>(.., name, ..): the key is built from the name alone.
CallReq(op, name, length, shape, aux, dim, cb) ==
    Req(op, CallSource(op), KeyFromName(name), length, shape, aux, dim, cb)

Requests ==
    {Req("load_library", s, NoKey, 0, <<>>, 0, 0, EmptyCmd) : s \in ReqSources}
    \cup {Req("load_pipeline", s, k, 0, <<>>, 0, 0, EmptyCmd) :
             s \in ReqSources, k \in ReqKeys}
    \cup {CallReq("call_unary_contiguous", "cos_float", 3, <<>>, 0, 0, cb) :
             cb \in ReqBuffers}
    \cup {CallReq("call_unary_contiguous", "cos_float", 0, <<>>, 0, 0, EmptyCmd)}
    \cup {CallReq("call_reduce_contiguous", "cos_float", 4, <<>>, a, 0, UsedCmd) :
             a \in {0, 2}}
    \cup {CallReq("call_index_select", "cos_float", 0, <<2, 2>>, 1, d, UsedCmd) :
             d \in {1, 2}}

\* ---------------------------------------------------------------- state
VARIABLES
    libraries,   \* Kernels.libraries: Source -> Library
    pipelines,   \* Kernels.pipelines: KernelKey -> ComputePipelineState
    libLock,     \* the RwLock of libraries: its writer and its poison flag
    pipeLock,    \* the RwLock of pipelines
    pc,          \* where each thread is in its call
    req,         \* the call each thread is in, or was in last
    result,      \* what the thread's last call returned (None while in a call)
    local,       \* the thread's locals: the Library, the pipeline
    attempts,    \* device calls made by the thread's call, per step
    cmd,         \* the command buffer handed to the thread's call
    libsCreated, \* every Library the device has made: [source, def, id]
    pipesCreated, \* every pipeline the device has made: [key, lib, id]
    max_total_threads_per_threadgroup \* what the device's pipelines report

\* A thread that is in no call.
NoReq == Req("none", "none", NoKey, 0, <<>>, 0, 0, EmptyCmd)
NoResult == [kind |-> "None", val |-> NoId, err |-> "", mode |-> ""]

vars ==
    <<libraries, pipelines, libLock, pipeLock, pc, req, result, local,
      attempts, cmd, libsCreated, pipesCreated,
      max_total_threads_per_threadgroup>>

Unlocked == [holder |-> NoThread, poisoned |-> FALSE]
NoAttempts == [library |-> 0, function |-> 0, pipeline |-> 0]
NoLocal == [lib |-> NoId, pipeline |-> NoId]

\* Kernels::new(): both caches empty, both locks free and unpoisoned.
Init ==
    /\ libraries = EmptyMap
    /\ pipelines = NoEntries
    /\ libLock = Unlocked
    /\ pipeLock = Unlocked
    /\ pc = [t \in Threads |-> "idle"]
    /\ req = [t \in Threads |-> NoReq]
    /\ local = [t \in Threads |-> NoLocal]
    /\ attempts = [t \in Threads |-> NoAttempts]
    /\ cmd = [t \in Threads |-> EmptyCmd]
    /\ result = [t \in Threads |-> NoResult]
    /\ libsCreated = {}
    /\ pipesCreated = {}
    /\ max_total_threads_per_threadgroup = MaxThreadsPerThreadgroup

\* --------------------------------------------------------------- errors
\* Result<_, MetalKernelError>: Ok(v) carries a device object (Ok(()) carries
\* none); Err carries the variant and, for the record, what failed.
Ok(v) == [kind |-> "Ok", val |-> v, err |-> "", mode |-> ""]
Err(variant, mode) == [kind |-> "Err", val |-> NoId, err |-> variant, mode |-> mode]

\* Mutant of PoisonErrorFrom: the conversion yields another variant.
PoisonErrorFrom_Wrong(cache) ==
    Err("FailedToCreateComputeFunction", "poisoned_" \o cache)

\* impl From<PoisonError<T>> for MetalKernelError
PoisonErrorFrom(cache) == Err("LockError", "poisoned_" \o cache)

\* load_library's two map_err closures
LibraryMapErr(def) ==
    Err("LoadLibraryError",
        IF def = "Source" THEN "source_compile" ELSE "binary_load")

\* Mutant of FunctionMapErr: the closure copied from load_library.
FunctionMapErr_Copy(mode) == Err("LoadLibraryError", mode)

\* load_function's map_err closure
FunctionMapErr(mode) == Err("LoadFunctionError", mode)

\* load_pipeline's map_err closure
PipelineMapErr == Err("FailedToCreatePipeline", "pipeline_rejected")

\* ------------------------------------------------------------ lock steps
\* A guard dropped on a normal return: the lock is free, its flag unchanged.
Released(lock) == [lock EXCEPT !.holder = NoThread]

\* A guard dropped while its thread unwinds: the lock is free and poisoned.
Poisoned(lock) == [holder |-> NoThread, poisoned |-> TRUE]

\* Every guard thread t holds is dropped, on a return or in an unwinding.
DropGuards(t, unwinding) ==
    /\ libLock' = IF libLock.holder # t THEN libLock
                  ELSE IF unwinding THEN Poisoned(libLock) ELSE Released(libLock)
    /\ pipeLock' = IF pipeLock.holder # t THEN pipeLock
                   ELSE IF unwinding THEN Poisoned(pipeLock) ELSE Released(pipeLock)

InPipeline(t) == req[t].op # "load_library"

\* The identity of the next Library the device makes for a module, and of
\* the next pipeline it makes for a key: the n-th object made for it.
NewLibId(source) == Cardinality({c \in libsCreated : c.source = source}) + 1
NewPipeId(key) == Cardinality({c \in pipesCreated : c.key = key}) + 1

\* The outermost call of thread t returns res to the thread's caller; att
\* and c are the call's device-call counts and command buffer at that point.
Finish(t, res, att, c) ==
    /\ result' = [result EXCEPT ![t] = res]
    /\ pc' = [pc EXCEPT ![t] = "idle"]
    /\ local' = [local EXCEPT ![t] = NoLocal]
    /\ attempts' = [attempts EXCEPT ![t] = att]
    /\ cmd' = [cmd EXCEPT ![t] = c]
    /\ req' = req

\* load_pipeline (or a direct load_library) returns res.  Inside a call_*
\* entry point an Err is returned on by `?` and an Ok pipeline is kept for
\* the encoding steps.
Return(t, res, att) ==
    IF req[t].op \in CallOps /\ res.kind = "Ok"
    THEN /\ pc' = [pc EXCEPT ![t] = "encode"]
         /\ local' = [local EXCEPT ![t].pipeline = res.val]
         /\ attempts' = [attempts EXCEPT ![t] = att]
         /\ UNCHANGED <<req, cmd, result>>
    ELSE Finish(t, res, att, cmd[t])

\* --------------------------------------------------------------- actions
\* Mutant of Start: a call_* entry point opens its encoder before it asks
\* for the pipeline.
Start_OpenFirst(t) ==
    /\ pc[t] = "idle"
    /\ \E r \in Requests :
          /\ req' = [req EXCEPT ![t] = r]
          /\ cmd' = [cmd EXCEPT ![t] =
                        IF r.op \in CallOps
                        THEN [r.cb EXCEPT
                                 !.scopes = @ + 1, !.open = @ + 1,
                                 !.log = Append(@, "new_compute_command_encoder")]
                        ELSE r.cb]
          /\ pc' = [pc EXCEPT ![t] =
                       IF PreLoadPanics(r) THEN "panicked"
                       ELSE IF r.op = "load_library" THEN "ll_lock"
                       ELSE "lp_lock"]
    /\ result' = [result EXCEPT ![t] = NoResult]
    /\ attempts' = [attempts EXCEPT ![t] = NoAttempts]
    /\ UNCHANGED <<libraries, pipelines, libLock, pipeLock, local,
                   libsCreated, pipesCreated>>
    /\ UNCHANGED max_total_threads_per_threadgroup

\* A thread enters load_library, load_pipeline or a call_* entry point,
\* handing it a command buffer.
Start(t) ==
    /\ pc[t] = "idle"
    /\ \E r \in Requests :
          /\ req' = [req EXCEPT ![t] = r]
          /\ cmd' = [cmd EXCEPT ![t] = r.cb]
          /\ pc' = [pc EXCEPT ![t] =
                       IF PreLoadPanics(r) THEN "panicked"
                       ELSE IF r.op = "load_library" THEN "ll_lock"
                       ELSE "lp_lock"]
    /\ result' = [result EXCEPT ![t] = NoResult]
    /\ attempts' = [attempts EXCEPT ![t] = NoAttempts]
    /\ UNCHANGED <<libraries, pipelines, libLock, pipeLock, local,
                   libsCreated, pipesCreated>>
    /\ UNCHANGED max_total_threads_per_threadgroup

\* Mutant of LP_Lock: the poison flag is ignored (the guard is taken out of
\* the PoisonError).
LP_Lock_IgnorePoison(t) ==
    /\ pc[t] = "lp_lock"
    /\ pipeLock.holder = NoThread
    /\ pipeLock' = [pipeLock EXCEPT !.holder = t]
    /\ pc' = [pc EXCEPT ![t] = "lp_get"]
    /\ UNCHANGED <<libraries, pipelines, libLock, req, result, local, attempts,
                   cmd, libsCreated, pipesCreated>>
    /\ UNCHANGED max_total_threads_per_threadgroup

\* load_pipeline: self.pipelines.write()?  The call blocks until the lock is
\* free; on a poisoned lock the guard inside the PoisonError is dropped and
\* LockError returned.
LP_Lock(t) ==
    /\ pc[t] = "lp_lock"
    /\ pipeLock.holder = NoThread
    /\ IF pipeLock.poisoned
       THEN /\ Return(t, PoisonErrorFrom("pipelines"), attempts[t])
            /\ UNCHANGED pipeLock
       ELSE /\ pipeLock' = [pipeLock EXCEPT !.holder = t]
            /\ pc' = [pc EXCEPT ![t] = "lp_get"]
            /\ UNCHANGED <<req, local, attempts, cmd, result>>
    /\ UNCHANGED <<libraries, pipelines, libLock, libsCreated, pipesCreated>>
    /\ UNCHANGED max_total_threads_per_threadgroup

\* Mutant of LP_Get: the guard is dropped after a miss and the compile runs
\* outside the critical section.
LP_Get_Unlocked(t) ==
    /\ pc[t] = "lp_get"
    /\ pipeLock' = Released(pipeLock)
    /\ IF MapGet(pipelines, req[t].key) # NoId
       THEN Return(t, Ok(MapGet(pipelines, req[t].key)), attempts[t])
       ELSE /\ pc' = [pc EXCEPT ![t] = "ll_lock"]
            /\ UNCHANGED <<req, result, local, attempts, cmd>>
    /\ UNCHANGED <<libraries, pipelines, libLock, libsCreated, pipesCreated>>
    /\ UNCHANGED max_total_threads_per_threadgroup

\* Mutant of LP_Get: a cached pipeline is returned only when the module named
\* in the call is loaded.
LP_Get_CheckModule(t) ==
    /\ pc[t] = "lp_get"
    /\ IF MapGet(pipelines, req[t].key) # NoId /\ req[t].source \in DOMAIN libraries
       THEN /\ Return(t, Ok(MapGet(pipelines, req[t].key)), attempts[t])
            /\ pipeLock' = Released(pipeLock)
       ELSE /\ pc' = [pc EXCEPT ![t] = "ll_lock"]
            /\ UNCHANGED <<req, local, attempts, cmd, result, pipeLock>>
    /\ UNCHANGED <<libraries, pipelines, libLock, libsCreated, pipesCreated>>
    /\ UNCHANGED max_total_threads_per_threadgroup

\* Mutant of LP_Get: a hit returns only after the library cache's lock was
\* taken and found unpoisoned.
LP_Get_ViaLibraryLock(t) ==
    /\ pc[t] = "lp_get"
    /\ IF MapGet(pipelines, req[t].key) # NoId
       THEN /\ libLock.holder = NoThread
            /\ IF libLock.poisoned
               THEN Return(t, PoisonErrorFrom("libraries"), attempts[t])
               ELSE Return(t, Ok(MapGet(pipelines, req[t].key)), attempts[t])
            /\ pipeLock' = Released(pipeLock)
       ELSE /\ pc' = [pc EXCEPT ![t] = "ll_lock"]
            /\ UNCHANGED <<req, local, attempts, cmd, result, pipeLock>>
    /\ UNCHANGED <<libraries, pipelines, libLock, libsCreated, pipesCreated>>
    /\ UNCHANGED max_total_threads_per_threadgroup

\* load_pipeline: pipelines.get(&key); a hit returns the cached pipeline and
\* drops the guard, a miss goes on to load_function.
LP_Get(t) ==
    /\ pc[t] = "lp_get"
    /\ IF MapGet(pipelines, req[t].key) # NoId
       THEN /\ Return(t, Ok(MapGet(pipelines, req[t].key)), attempts[t])
            /\ pipeLock' = Released(pipeLock)
       ELSE /\ pc' = [pc EXCEPT ![t] = "ll_lock"]
            /\ UNCHANGED <<req, local, attempts, cmd, result, pipeLock>>
    /\ UNCHANGED <<libraries, pipelines, libLock, libsCreated, pipesCreated>>
    /\ UNCHANGED max_total_threads_per_threadgroup

\* Mutant of Fail: the guards are leaked on an early return.
Fail_KeepGuards(t, e, att) ==
    /\ Return(t, e, att)
    /\ UNCHANGED <<libLock, pipeLock>>

\* An Err leaves load_library (and, through `?`, load_function and
\* load_pipeline): every guard the call holds is dropped.
Fail(t, e, att) ==
    /\ Return(t, e, att)
    /\ DropGuards(t, FALSE)

\* The thread unwinds out of a device call: every guard it holds is dropped
\* during the unwinding, which poisons its lock.
Unwind(t, att) ==
    /\ pc' = [pc EXCEPT ![t] = "panicked"]
    /\ attempts' = [attempts EXCEPT ![t] = att]
    /\ DropGuards(t, TRUE)
    /\ UNCHANGED <<req, local, cmd, result>>

\* load_library: self.libraries.write()?
LL_Lock(t) ==
    /\ pc[t] = "ll_lock"
    /\ libLock.holder = NoThread
    /\ IF libLock.poisoned
       THEN Fail(t, PoisonErrorFrom("libraries"), attempts[t])
       ELSE /\ libLock' = [libLock EXCEPT !.holder = t]
            /\ pc' = [pc EXCEPT ![t] = "ll_get"]
            /\ UNCHANGED <<req, local, attempts, cmd, result, pipeLock>>
    /\ UNCHANGED <<libraries, pipelines, libsCreated, pipesCreated>>
    /\ UNCHANGED max_total_threads_per_threadgroup

\* Mutant of LibraryLoaded: the guard of the library cache outlives the call.
LibraryLoaded_KeepGuard(t, lib, att) ==
    /\ IF InPipeline(t)
       THEN /\ pc' = [pc EXCEPT ![t] = "lf_get"]
            /\ local' = [local EXCEPT ![t].lib = lib]
            /\ attempts' = [attempts EXCEPT ![t] = att]
            /\ UNCHANGED <<req, cmd, result>>
       ELSE Return(t, Ok(lib), att)
    /\ UNCHANGED <<libLock, pipeLock>>

\* load_library returns Ok(lib) and drops its guard: to the thread, or to
\* load_function inside load_pipeline.
LibraryLoaded(t, lib, att) ==
    /\ libLock' = Released(libLock)
    /\ IF InPipeline(t)
       THEN /\ pc' = [pc EXCEPT ![t] = "lf_get"]
            /\ local' = [local EXCEPT ![t].lib = lib]
            /\ attempts' = [attempts EXCEPT ![t] = att]
            /\ UNCHANGED <<req, cmd, result>>
       ELSE Return(t, Ok(lib), att)
    /\ UNCHANGED pipeLock

\* Mutant of LL_Get: the guard is dropped after a miss and the library is
\* made outside the critical section.
LL_Get_Unlocked(t) ==
    /\ pc[t] = "ll_get"
    /\ IF LibGet(libraries, req[t].source) # NoId
       THEN LibraryLoaded(t, LibGet(libraries, req[t].source), attempts[t])
       ELSE /\ pc' = [pc EXCEPT ![t] = "ll_new"]
            /\ libLock' = Released(libLock)
            /\ UNCHANGED <<req, local, attempts, cmd, result, pipeLock>>
    /\ UNCHANGED <<libraries, pipelines, libsCreated, pipesCreated>>
    /\ UNCHANGED max_total_threads_per_threadgroup

\* load_library: libraries.get(&source)
LL_Get(t) ==
    /\ pc[t] = "ll_get"
    /\ IF LibGet(libraries, req[t].source) # NoId
       THEN LibraryLoaded(t, LibGet(libraries, req[t].source), attempts[t])
       ELSE /\ pc' = [pc EXCEPT ![t] = "ll_new"]
            /\ UNCHANGED <<req, local, attempts, cmd, result, libLock, pipeLock>>
    /\ UNCHANGED <<libraries, pipelines, libsCreated, pipesCreated>>
    /\ UNCHANGED max_total_threads_per_threadgroup

\* One more device call of the given step in the thread's current call.
Attempt(t, step) == [attempts[t] EXCEPT ![step] = @ + 1]

\* load_library on a miss: device.new_library_with_source (a text module) or
\* device.new_library_with_data (the blob) succeeds; the library is inserted.
LL_NewOk(t) ==
    /\ pc[t] = "ll_new"
    /\ libraries' = LibInsert(libraries, req[t].source, NewLibId(req[t].source))
    /\ libsCreated' = libsCreated \cup
          {[source |-> req[t].source, id |-> NewLibId(req[t].source),
            def |-> get_library_source(req[t].source).def]}
    /\ LibraryLoaded(t, NewLibId(req[t].source), Attempt(t, "library"))
    /\ UNCHANGED <<pipelines, pipesCreated>>
    /\ UNCHANGED max_total_threads_per_threadgroup

\* Mutant of LL_NewErr: the device call is tried again after an error.
LL_NewErr_Retry(t) ==
    /\ pc[t] = "ll_new"
    /\ attempts' = [attempts EXCEPT ![t] = Attempt(t, "library")]
    /\ UNCHANGED <<libraries, pipelines, libLock, pipeLock, pc, req, result,
                   local, cmd, libsCreated, pipesCreated>>
    /\ UNCHANGED max_total_threads_per_threadgroup

\* ... the device returns an error: map_err to LoadLibraryError, `?` returns.
LL_NewErr(t) ==
    /\ pc[t] = "ll_new"
    /\ Fail(t, LibraryMapErr(get_library_source(req[t].source).def),
            Attempt(t, "library"))
    /\ UNCHANGED <<libraries, pipelines, libsCreated, pipesCreated>>
    /\ UNCHANGED max_total_threads_per_threadgroup

\* ... the device call unwinds.
LL_NewPanic(t) ==
    /\ pc[t] = "ll_new"
    /\ Unwind(t, Attempt(t, "library"))
    /\ UNCHANGED <<libraries, pipelines, libsCreated, pipesCreated>>
    /\ UNCHANGED max_total_threads_per_threadgroup

\* load_function: library.get_function(key.name, constants) succeeds.
LF_GetOk(t) ==
    /\ pc[t] = "lf_get"
    /\ attempts' = [attempts EXCEPT ![t] = Attempt(t, "function")]
    /\ pc' = [pc EXCEPT ![t] = "lp_new"]
    /\ UNCHANGED <<libraries, pipelines, libLock, pipeLock, req, local, cmd,
                   result, libsCreated, pipesCreated>>
    /\ UNCHANGED max_total_threads_per_threadgroup

\* The ways get_function fails: no function of that name in the library, or
\* (for a key with constants) the constants rejected.
FunctionFailures(key) ==
    {"function_not_found"} \cup
    (IF key.constants # None THEN {"constant_rejected"} ELSE {})

\* Mutant of LF_GetErr: the module's library is taken out of the cache again.
LF_GetErr_Rollback(t) ==
    /\ pc[t] = "lf_get"
    /\ \E mode \in FunctionFailures(req[t].key) :
          Fail(t, FunctionMapErr(mode), Attempt(t, "function"))
    /\ libraries' = [s \in DOMAIN libraries \ {req[t].source} |-> libraries[s]]
    /\ UNCHANGED <<pipelines, libsCreated, pipesCreated>>
    /\ UNCHANGED max_total_threads_per_threadgroup

\* ... get_function returns an error: map_err to LoadFunctionError.
LF_GetErr(t) ==
    /\ pc[t] = "lf_get"
    /\ \E mode \in FunctionFailures(req[t].key) :
          Fail(t, FunctionMapErr(mode), Attempt(t, "function"))
    /\ UNCHANGED <<libraries, pipelines, libsCreated, pipesCreated>>
    /\ UNCHANGED max_total_threads_per_threadgroup

\* ... get_function unwinds.
LF_GetPanic(t) ==
    /\ pc[t] = "lf_get"
    /\ Unwind(t, Attempt(t, "function"))
    /\ UNCHANGED <<libraries, pipelines, libsCreated, pipesCreated>>
    /\ UNCHANGED max_total_threads_per_threadgroup

\* load_pipeline: device.new_compute_pipeline_state_with_function succeeds;
\* the pipeline is inserted under the key and returned, the guard dropped.
LP_NewOk(t) ==
    /\ pc[t] = "lp_new"
    /\ pipelines' = MapInsert(pipelines, req[t].key, NewPipeId(req[t].key))
    /\ pipesCreated' = pipesCreated \cup
          {[key |-> req[t].key, id |-> NewPipeId(req[t].key), lib |-> local[t].lib]}
    /\ Return(t, Ok(NewPipeId(req[t].key)), Attempt(t, "pipeline"))
    /\ pipeLock' = Released(pipeLock)
    /\ UNCHANGED <<libraries, libLock, libsCreated>>
    /\ UNCHANGED max_total_threads_per_threadgroup

\* Mutant of LP_NewErr: the refusal is remembered in the cache.
LP_NewErr_Cached(t) ==
    /\ pc[t] = "lp_new"
    /\ Fail(t, PipelineMapErr, Attempt(t, "pipeline"))
    /\ pipelines' = MapInsert(pipelines, req[t].key, NewPipeId(req[t].key))
    /\ UNCHANGED <<libraries, libsCreated, pipesCreated>>
    /\ UNCHANGED max_total_threads_per_threadgroup

\* ... the device refuses: map_err to FailedToCreatePipeline.
LP_NewErr(t) ==
    /\ pc[t] = "lp_new"
    /\ Fail(t, PipelineMapErr, Attempt(t, "pipeline"))
    /\ UNCHANGED <<libraries, pipelines, libsCreated, pipesCreated>>
    /\ UNCHANGED max_total_threads_per_threadgroup

\* ... the device call unwinds.
LP_NewPanic(t) ==
    /\ pc[t] = "lp_new"
    /\ Unwind(t, Attempt(t, "pipeline"))
    /\ UNCHANGED <<libraries, pipelines, libsCreated, pipesCreated>>
    /\ UNCHANGED max_total_threads_per_threadgroup

\* Mutant of Encode: the entry point opens its encoder before its own
\* arithmetic.
Encode_DivideLate(t) ==
    /\ pc[t] = "encode"
    /\ IF PreEncoderPanics(req[t])
       THEN /\ pc' = [pc EXCEPT ![t] = "panicked"]
            /\ cmd' = [cmd EXCEPT ![t] =
                          [@ EXCEPT !.scopes = @ + 1, !.open = @ + 1,
                                    !.pipeline = local[t].pipeline,
                                    !.log = @ \o EncoderSteps(0)]]
       ELSE /\ pc' = [pc EXCEPT ![t] = "dispatch"]
            /\ cmd' = [cmd EXCEPT ![t] =
                          [scopes |-> @.scopes + 1, open |-> @.open + 1,
                           pipeline |-> local[t].pipeline,
                           params |-> set_params(CallParams(req[t])),
                           dispatches |-> @.dispatches,
                           log |-> @.log \o
                                   EncoderSteps(Len(CallParams(req[t])))]]
    /\ UNCHANGED <<libraries, pipelines, libLock, pipeLock, req, local,
                   attempts, result, libsCreated, pipesCreated>>
    /\ UNCHANGED max_total_threads_per_threadgroup

\* call_*: after load_pipeline returned Ok, what runs up to set_params!:
\* the entry point's own arithmetic, new_compute_command_encoder,
\* set_compute_pipeline_state and the argument bindings.
Encode(t) ==
    /\ pc[t] = "encode"
    /\ IF PreEncoderPanics(req[t])
       THEN /\ pc' = [pc EXCEPT ![t] = "panicked"]
            /\ cmd' = cmd
       ELSE /\ pc' = [pc EXCEPT ![t] = "dispatch"]
            /\ cmd' = [cmd EXCEPT ![t] =
                          [scopes |-> @.scopes + 1, open |-> @.open + 1,
                           pipeline |-> local[t].pipeline,
                           params |-> set_params(CallParams(req[t])),
                           dispatches |-> @.dispatches,
                           log |-> @.log \o
                                   EncoderSteps(Len(CallParams(req[t])))]]
    /\ UNCHANGED <<libraries, pipelines, libLock, pipeLock, req, local,
                   attempts, result, libsCreated, pipesCreated>>
    /\ UNCHANGED max_total_threads_per_threadgroup

\* Mutant of Dispatch: the scope is ended before the dispatch is recorded.
Dispatch_EndFirst(t) ==
    /\ pc[t] = "dispatch"
    /\ LET grid == CallGrid(req[t], max_total_threads_per_threadgroup)
       IN  IF grid.panic
           THEN /\ pc' = [pc EXCEPT ![t] = "panicked"]
                /\ UNCHANGED <<req, local, attempts, cmd, result>>
           ELSE Finish(t, Ok(NoId), attempts[t],
                       [cmd[t] EXCEPT !.dispatches = Append(@, grid),
                                      !.open = @ - 1,
                                      !.log = @ \o <<"end_encoding",
                                                     "dispatch_thread_groups">>])
    /\ UNCHANGED <<libraries, pipelines, libLock, pipeLock, libsCreated,
                   pipesCreated>>
    /\ UNCHANGED max_total_threads_per_threadgroup

\* call_*: the grid, dispatch_thread_groups, end_encoding, Ok(()).  A grid
\* computation that aborts leaves the scope open.
Dispatch(t) ==
    /\ pc[t] = "dispatch"
    /\ LET grid == CallGrid(req[t], max_total_threads_per_threadgroup)
       IN  IF grid.panic
           THEN /\ pc' = [pc EXCEPT ![t] = "panicked"]
                /\ UNCHANGED <<req, local, attempts, cmd, result>>
           ELSE Finish(t, Ok(NoId), attempts[t],
                       [cmd[t] EXCEPT !.dispatches = Append(@, grid),
                                      !.open = @ - 1,
                                      !.log = @ \o DispatchSteps])
    /\ UNCHANGED <<libraries, pipelines, libLock, pipeLock, libsCreated,
                   pipesCreated>>
    /\ UNCHANGED max_total_threads_per_threadgroup

Next ==
    \E t \in Threads :
        \/ Start(t)
        \/ LP_Lock(t)
        \/ LP_Get(t)
        \/ LL_Lock(t)
        \/ LL_Get(t)
        \/ LL_NewOk(t)
        \/ LL_NewErr(t)
        \/ LL_NewPanic(t)
        \/ LF_GetOk(t)
        \/ LF_GetErr(t)
        \/ LF_GetPanic(t)
        \/ LP_NewOk(t)
        \/ LP_NewErr(t)
        \/ LP_NewPanic(t)
        \/ Encode(t)
        \/ Dispatch(t)

Spec == Init /\ [][Next]_vars

\* ---------------------------------------------------------------- claims
\* A thread whose call asks for a pipeline: load_pipeline or a call_*.
AsksPipeline(t) == req[t].op = "load_pipeline" \/ req[t].op \in CallOps

\* The thread's last call was load_pipeline and returned Ok.
PipelineOk(t) == req[t].op = "load_pipeline" /\ result[t].kind = "Ok"

\* The thread's last call was load_library and returned Ok.
LibraryOk(t) == req[t].op = "load_library" /\ result[t].kind = "Ok"

\* Where a thread is inside load_pipeline's compile branch (after a miss).
CompilePcs == {"ll_lock", "ll_get", "ll_new", "lf_get", "lp_new"}
InCompile(t) == AsksPipeline(t) /\ pc[t] \in CompilePcs

\* The pipelines the device has made for a key, the libraries for a module.
PipesFor(key) == {c \in pipesCreated : KernelKeyEq(c.key, key)}
LibsFor(source) == {c \in libsCreated : c.source = source}

\* C1: for a fixed key at most one pipeline instance is ever created, and
\* every load_pipeline call that returned Ok for the key returned that
\* instance, whatever module it named.
C1_OnePipelinePerKey ==
    /\ \A c \in pipesCreated : Cardinality(PipesFor(c.key)) = 1
    /\ \A t \in Threads :
          PipelineOk(t) =>
             /\ \E c \in PipesFor(req[t].key) : c.id = result[t].val
             /\ \A u \in Threads :
                   (PipelineOk(u) /\ KernelKeyEq(req[u].key, req[t].key))
                      => result[u].val = result[t].val

\* C1 witness: two calls naming different modules returned Ok for one key.
C1_Witness ==
    \E t, u \in Threads :
        /\ t # u
        /\ PipelineOk(t) /\ PipelineOk(u)
        /\ KernelKeyEq(req[t].key, req[u].key)
        /\ req[t].source # req[u].source

\* C2: for a fixed module at most one Library instance is ever created, it
\* is created by the first request that needs it (the cache holds exactly
\* the libraries created), and every successful request for the module,
\* direct or from inside load_pipeline, got that instance.
C2_OneLibraryPerModule ==
    /\ \A c \in libsCreated :
          /\ Cardinality(LibsFor(c.source)) = 1
          /\ c.source \in DOMAIN libraries
          /\ libraries[c.source] = c.id
    /\ \A s \in DOMAIN libraries : \E c \in LibsFor(s) : c.id = libraries[s]
    /\ \A t \in Threads :
          /\ LibraryOk(t) =>
                \E c \in LibsFor(req[t].source) : c.id = result[t].val
          /\ local[t].lib # NoId =>
                \E c \in LibsFor(req[t].source) : c.id = local[t].lib

\* C2 witness: a direct load_library returned the module's library and a
\* load_pipeline of another thread holds a library of the same module.
C2_Witness ==
    \E t, u \in Threads :
        /\ t # u
        /\ LibraryOk(t)
        /\ InCompile(u) /\ local[u].lib # NoId
        /\ req[u].source = req[t].source

\* A step of thread t inside a call (every action but Start).
Step(t) ==
    \/ LP_Lock(t) \/ LP_Get(t) \/ LL_Lock(t) \/ LL_Get(t)
    \/ LL_NewOk(t) \/ LL_NewErr(t) \/ LL_NewPanic(t)
    \/ LF_GetOk(t) \/ LF_GetErr(t) \/ LF_GetPanic(t)
    \/ LP_NewOk(t) \/ LP_NewErr(t) \/ LP_NewPanic(t)
    \/ Encode(t) \/ Dispatch(t)

InCall(t) == pc[t] \notin {"idle", "panicked"}

\* C3: threads that ask concurrently for the same uncached key: at most one
\* of them is in the compile branch at a time, the calls that returned Ok
\* got the identical pipeline, only one of them made the pipeline-creation
\* device call, and while a thread is inside a call some thread inside a
\* call can take a step (no deadlock).
C3_ConcurrentMiss ==
    /\ \A t, u \in Threads :
          (t # u /\ InCompile(t) /\ InCompile(u)) => FALSE
    /\ \A t, u \in Threads :
          (t # u /\ PipelineOk(t) /\ PipelineOk(u)
             /\ KernelKeyEq(req[t].key, req[u].key))
          => /\ result[t].val = result[u].val
             /\ attempts[t].pipeline + attempts[u].pipeline <= 1
    /\ (\E t \in Threads : InCall(t))
          => \E t \in Threads : InCall(t) /\ ENABLED Step(t)

\* C3 witness: one thread compiles an uncached key while another thread,
\* asking for the same key, waits for the pipelines lock.
C3_Witness ==
    \E t, u \in Threads :
        /\ t # u
        /\ req[t].op = "load_pipeline" /\ req[u].op = "load_pipeline"
        /\ KernelKeyEq(req[t].key, req[u].key)
        /\ pc[t] = "lp_new" /\ pc[u] = "lp_lock"
        /\ MapFind(pipelines, req[t].key) = {}

\* C4 as claimed: the compile routine (get_function, pipeline-state
\* creation) is invoked at most once per key: no two calls for one key have
\* each made the device call.
C4_Original ==
    \A t, u \in Threads :
        (t # u /\ AsksPipeline(t) /\ AsksPipeline(u)
           /\ KernelKeyEq(req[t].key, req[u].key))
        => /\ attempts[t].function + attempts[u].function <= 1
           /\ attempts[t].pipeline + attempts[u].pipeline <= 1

\* C4 amended: the compile routine runs only for a key that has no cache
\* entry, and pipeline-state creation succeeds at most once per key; a
\* compile that failed is repeated by the next request for the key.
C4_CompileOnlyUncached ==
    /\ \A t \in Threads :
          InCompile(t) => MapFind(pipelines, req[t].key) = {}
    /\ \A c \in pipesCreated : Cardinality(PipesFor(c.key)) <= 1
    /\ \A t, u \in Threads :
          (t # u /\ AsksPipeline(t) /\ AsksPipeline(u)
             /\ KernelKeyEq(req[t].key, req[u].key)
             /\ attempts[t].pipeline >= 1 /\ attempts[u].pipeline >= 1)
          => (result[t].kind = "Err" \/ result[u].kind = "Err"
              \/ pc[t] = "panicked" \/ pc[u] = "panicked")

\* C4 witness: a compile of a key failed at pipeline creation and a later
\* call compiled the same key successfully.
C4_Witness ==
    \E t, u \in Threads :
        /\ t # u
        /\ PipelineOk(u) /\ attempts[u].pipeline = 1
        /\ req[t].op = "load_pipeline"
        /\ KernelKeyEq(req[t].key, req[u].key)
        /\ result[t].err = "FailedToCreatePipeline"

\* m2 holds every entry of m, unchanged.
Extends(m, m2) ==
    /\ DOMAIN m \subseteq DOMAIN m2
    /\ \A k \in DOMAIN m : m2[k] = m[k]

\* C5: both caches start empty and only grow: a step never removes or
\* replaces an entry, and a step that adds one adds a single entry, for an
\* object the device has just handed back from a successful creation (the
\* entry names a real object and is added by the thread that made the call).
C5_CachesOnlyGrow ==
    /\ libraries = EmptyMap /\ pipelines = NoEntries
    /\ [][/\ Extends(libraries, libraries')
          /\ pipelines \subseteq pipelines'
          /\ libraries' # libraries =>
                \E t \in Threads :
                   /\ pc[t] = "ll_new"
                   /\ attempts'[t].library = attempts[t].library + 1
                   /\ DOMAIN libraries' = DOMAIN libraries \cup {req[t].source}
                   /\ libraries'[req[t].source] # NoId
                   /\ \E c \in libsCreated' \ libsCreated :
                         /\ c.source = req[t].source
                         /\ c.id = libraries'[req[t].source]
          /\ pipelines' # pipelines =>
                \E t \in Threads :
                   /\ pc[t] = "lp_new"
                   /\ attempts'[t].pipeline = attempts[t].pipeline + 1
                   /\ \E c \in pipesCreated' \ pipesCreated :
                         /\ c.key = req[t].key
                         /\ c.id # NoId
                         /\ pipelines' = pipelines \cup
                               {[key |-> req[t].key, val |-> c.id]}
         ]_vars

\* C5 witness: both caches hold entries, the pipeline cache two of them, and
\* a load_pipeline has returned Ok from the cache without any device call.
C5_Witness ==
    /\ DOMAIN libraries # {}
    /\ Cardinality(pipelines) = 2
    /\ \E t \in Threads :
          /\ PipelineOk(t)
          /\ attempts[t] = NoAttempts
          /\ MapFind(pipelines, req[t].key) # {}

\* The thread's call is inside load_pipeline (before it has returned).
LoadPcs == {"lp_lock", "lp_get"} \cup CompilePcs

\* C6: a call_* entry point whose load_pipeline returned an error has
\* returned that error with its command buffer exactly as it was handed in
\* (no encoder opened, no argument bound, no dispatch recorded, no scope
\* open), and the buffer is untouched while load_pipeline runs.
C6_FailedLoadLeavesBuffer ==
    \A t \in Threads :
        req[t].op \in CallOps =>
           /\ result[t].kind = "Err" =>
                 /\ pc[t] = "idle"
                 /\ cmd[t] = req[t].cb
                 /\ cmd[t].open = 0
           /\ pc[t] \in LoadPcs => cmd[t] = req[t].cb

\* C6 witness: a call_* handed a buffer that already held a dispatch returned
\* an error from load_pipeline.
C6_Witness ==
    \E t \in Threads :
        /\ req[t].op \in CallOps
        /\ result[t].kind = "Err"
        /\ req[t].cb = UsedCmd

\* C7: inside one call each device step is attempted at most once, and the
\* call returns at its first failure: the failed step was attempted once and
\* no later step at all, and nothing was attempted after a lock error.
C7_NoRetry ==
    \A t \in Threads :
        /\ attempts[t].library <= 1
        /\ attempts[t].function <= 1
        /\ attempts[t].pipeline <= 1
        /\ attempts[t].function = 1 => pc[t] \notin {"ll_lock", "ll_get", "ll_new"}
        /\ result[t].kind = "Err" =>
              /\ pc[t] = "idle"
              /\ result[t].err = "LoadLibraryError" =>
                    attempts[t] = [library |-> 1, function |-> 0, pipeline |-> 0]
              /\ result[t].err = "LoadFunctionError" =>
                    attempts[t].function = 1 /\ attempts[t].pipeline = 0
              /\ result[t].err = "FailedToCreatePipeline" =>
                    attempts[t].function = 1 /\ attempts[t].pipeline = 1
              /\ result[t].mode = "poisoned_pipelines" => attempts[t] = NoAttempts
              /\ result[t].mode = "poisoned_libraries" => attempts[t] = NoAttempts

\* C7 witness: a call_* made each device call once and returned the error of
\* the last one.
C7_Witness ==
    \E t \in Threads :
        /\ req[t].op \in CallOps
        /\ result[t].mode = "pipeline_rejected"
        /\ attempts[t] = [library |-> 1, function |-> 1, pipeline |-> 1]

\* C8: the error a call returns is determined by what failed: a poisoned
\* lock gives LockError, a module that does not compile or load gives
\* LoadLibraryError, a failed function lookup gives LoadFunctionError, a
\* refused pipeline gives FailedToCreatePipeline; no other variant is
\* returned, and load_library returns only the first two.
C8_ErrorTaxonomy ==
    \A t \in Threads :
        result[t].kind = "Err" =>
           /\ result[t].err \in
                 {"LockError", "LoadLibraryError", "LoadFunctionError",
                  "FailedToCreatePipeline"}
           /\ result[t].mode \in {"poisoned_libraries", "poisoned_pipelines"}
                 <=> result[t].err = "LockError"
           /\ result[t].mode \in {"source_compile", "binary_load"}
                 <=> result[t].err = "LoadLibraryError"
           /\ result[t].mode \in {"function_not_found", "constant_rejected"}
                 <=> result[t].err = "LoadFunctionError"
           /\ result[t].mode = "pipeline_rejected"
                 <=> result[t].err = "FailedToCreatePipeline"
           /\ req[t].op = "load_library" =>
                 result[t].err \in {"LockError", "LoadLibraryError"}

\* C8 witness: load_pipeline found the library cache's lock poisoned and
\* returned LockError.
C8_Witness ==
    \E t \in Threads :
        /\ req[t].op = "load_pipeline"
        /\ result[t].err = "LockError"
        /\ result[t].mode = "poisoned_libraries"

\* The five failure modes of the cache and the step each belongs to.
FailureModes ==
    {"source_compile", "binary_load", "function_not_found",
     "constant_rejected", "pipeline_rejected"}

StepOf(mode) ==
    CASE mode \in {"source_compile", "binary_load"}           -> "library"
      [] mode \in {"function_not_found", "constant_rejected"} -> "function"
      [] mode = "pipeline_rejected"                           -> "pipeline"

\* Two calls that both returned one of the five failures.
BothFailed(t, u) ==
    /\ result[t].kind = "Err" /\ result[t].mode \in FailureModes
    /\ result[u].kind = "Err" /\ result[u].mode \in FailureModes

\* C9 as claimed: no two of the five failure modes produce the same variant.
C9_Original ==
    \A t, u \in Threads :
        (BothFailed(t, u) /\ result[t].mode # result[u].mode)
        => result[t].err # result[u].err

\* C9 amended: failures of different steps (library, function lookup,
\* pipeline creation) never share a variant, while the two library failures
\* share LoadLibraryError and the two function failures LoadFunctionError.
C9_DistinctPerStep ==
    \A t, u \in Threads :
        BothFailed(t, u) =>
           (StepOf(result[t].mode) = StepOf(result[u].mode)
               <=> result[t].err = result[u].err)

\* C9 witness: a source compilation failure and a binary load failure, both
\* reported as LoadLibraryError.
C9_Witness ==
    \E t, u \in Threads :
        /\ result[t].mode = "source_compile"
        /\ result[u].mode = "binary_load"
        /\ result[t].err = "LoadLibraryError"
        /\ result[u].err = "LoadLibraryError"

\* Thread t starts to unwind in this step.
Panics(t) == pc[t] # "panicked" /\ pc'[t] = "panicked"

\* C10: a thread that unwinds while it holds a cache's write lock leaves the
\* lock poisoned; a poisoned lock stays poisoned and is never held; and every
\* call that comes to acquire a poisoned lock returns LockError.
C10_PoisonIsPermanent ==
    [][/\ \A t \in Threads :
             /\ (Panics(t) /\ pipeLock.holder = t) => pipeLock'.poisoned
             /\ (Panics(t) /\ libLock.holder = t) => libLock'.poisoned
             /\ (pc[t] = "lp_lock" /\ pipeLock.poisoned /\ pc'[t] # "lp_lock")
                   => /\ pc'[t] = "idle"
                      /\ result'[t].kind = "Err"
                      /\ result'[t].err = "LockError"
             /\ (pc[t] = "ll_lock" /\ libLock.poisoned /\ pc'[t] # "ll_lock")
                   => /\ pc'[t] = "idle"
                      /\ result'[t].kind = "Err"
                      /\ result'[t].err = "LockError"
       /\ pipeLock.poisoned => (pipeLock'.poisoned /\ pipeLock'.holder = NoThread)
       /\ libLock.poisoned => (libLock'.poisoned /\ libLock'.holder = NoThread)
      ]_vars

\* C10 witness: a thread unwound inside a device call holding both locks,
\* both are poisoned, and a later load_pipeline returned LockError.
C10_Witness ==
    \E t, u \in Threads :
        /\ pc[t] = "panicked" /\ attempts[t].library = 1
        /\ pipeLock.poisoned /\ libLock.poisoned
        /\ req[u].op = "load_pipeline"
        /\ result[u].err = "LockError"
        /\ result[u].mode = "poisoned_pipelines"

\* ------------------------------------------------- one caller, many inputs
\* The thread that calls alone in the sequential specifications.
Caller == CHOOSE t \in Threads : TRUE

\* A thread enters a call drawn from the request set R.
StartWith(t, R) ==
    /\ pc[t] = "idle"
    /\ \E r \in R :
          /\ req' = [req EXCEPT ![t] = r]
          /\ cmd' = [cmd EXCEPT ![t] = r.cb]
          /\ pc' = [pc EXCEPT ![t] =
                       IF PreLoadPanics(r) THEN "panicked"
                       ELSE IF r.op = "load_library" THEN "ll_lock"
                       ELSE "lp_lock"]
    /\ result' = [result EXCEPT ![t] = NoResult]
    /\ attempts' = [attempts EXCEPT ![t] = NoAttempts]
    /\ UNCHANGED <<libraries, pipelines, libLock, pipeLock, local,
                   libsCreated, pipesCreated, max_total_threads_per_threadgroup>>

\* The element counts, device limits and shapes the dispatch entry points
\* are called with.
MaxLength == 6
Lengths == 0..MaxLength
GridLimits == (1..MaxThreadsPerThreadgroup) \cup {256}
GridShapes == {<<>>, <<2>>, <<2, 3>>, <<2, 3, 4>>, <<3, 0>>}
MaxDim == 3

ContiguousOps ==
    {"call_unary_contiguous", "call_binary_contiguous", "call_cast_contiguous",
     "call_affine"}

StridedOps ==
    {"call_unary_strided", "call_binary_strided", "call_cast_strided",
     "call_affine_strided", "call_where_cond_strided", "call_mfa_gemm"}

GridRequests ==
    {CallReq(op, "cos_float", n, <<>>, 0, 0, EmptyCmd) :
        op \in ContiguousOps, n \in Lengths \cup {1000}}
    \cup {CallReq(op, "cos_float", 0, sh, 0, 0, EmptyCmd) :
             op \in StridedOps, sh \in GridShapes}
    \cup {CallReq("call_reduce_contiguous", "cos_float", n, <<>>, o, 0, EmptyCmd) :
             n \in Lengths \cup {1024}, o \in 0..4}
    \cup {CallReq("call_last_softmax", "cos_float", n, <<>>, k, 0, EmptyCmd) :
             n \in Lengths \cup {4096}, k \in (0..4) \cup {1024}}
    \cup {CallReq("call_index_select", "cos_float", 0, sh, ids, d, EmptyCmd) :
             sh \in GridShapes, ids \in {0, 1, 5}, d \in 0..MaxDim}
    \cup {CallReq("call_where_cond_strided", "cos_float", 0, <<2, 3>>, 0, 0,
                   UsedCmd)}

\* Kernels::new() on a device whose pipelines report any of the limits.
GridInit ==
    /\ libraries = EmptyMap
    /\ pipelines = NoEntries
    /\ libLock = Unlocked
    /\ pipeLock = Unlocked
    /\ pc = [t \in Threads |-> "idle"]
    /\ req = [t \in Threads |-> NoReq]
    /\ local = [t \in Threads |-> NoLocal]
    /\ attempts = [t \in Threads |-> NoAttempts]
    /\ cmd = [t \in Threads |-> EmptyCmd]
    /\ result = [t \in Threads |-> NoResult]
    /\ libsCreated = {}
    /\ pipesCreated = {}
    /\ max_total_threads_per_threadgroup \in GridLimits

\* One thread calls the dispatch entry points one after the other, on a
\* device whose calls all succeed.
GridNext ==
    \E t \in {Caller} :
        \/ StartWith(t, GridRequests)
        \/ LP_Lock(t)
        \/ LP_Get(t)
        \/ LL_Lock(t)
        \/ LL_Get(t)
        \/ LL_NewOk(t)
        \/ LF_GetOk(t)
        \/ LP_NewOk(t)
        \/ Encode(t)
        \/ Dispatch(t)

GridSpec == GridInit /\ [][GridNext]_vars

\* The grid the thread's call recorded last, and the call having returned
\* Ok(()) from one of the entry points ops.
LastDispatch(t) == cmd[t].dispatches[Len(cmd[t].dispatches)]
Dispatched(t, ops) == req[t].op \in ops /\ result[t].kind = "Ok"

\* The linear policy for n elements under limit m, stated without division:
\* the width is the smaller of m and n, the count the least c with
\* c * width >= n.
IsLinearGrid(g, m, n) ==
    LET w == g.size[1]
        c == g.count[1]
    IN  /\ ~g.panic
        /\ g.size = <<w, 1, 1>>
        /\ g.count = <<c, 1, 1>>
        /\ w = (IF m <= n THEN m ELSE n)
        /\ (c - 1) * w < n
        /\ n <= c * w

\* C11: every linear entry point that returned Ok for N >= 1 elements on a
\* device of limit M >= 1 dispatched group size (min(M, N), 1, 1) and group
\* count (ceil(N / width), 1, 1); for N = 1000 and M = 256 that is width 256
\* and count 4.
C11_LinearGrid ==
    \A t \in Threads :
        Dispatched(t, ContiguousOps \cup StridedOps) =>
           LET n == LinearLength(req[t])
               m == max_total_threads_per_threadgroup
               g == LastDispatch(t)
           IN  /\ n >= 1
               /\ IsLinearGrid(g, m, n)
               /\ (n = 1000 /\ m = 256) =>
                     (g.size = <<256, 1, 1>> /\ g.count = <<4, 1, 1>>)

\* C11 witness: call_unary_contiguous returned Ok for 1000 elements on a
\* device of limit 256.
C11_Witness ==
    \E t \in Threads :
        /\ Dispatched(t, {"call_unary_contiguous"})
        /\ req[t].length = 1000
        /\ max_total_threads_per_threadgroup = 256
        /\ Len(cmd[t].dispatches) = 1

\* The powers of two a group size can be.
Pow2s == {2 ^ k : k \in 0..12}

\* p is the least power of two >= x.
IsNextPow2(p, x) ==
    /\ p \in Pow2s
    /\ p >= x
    /\ (x >= 1 => p < 2 * x)
    /\ (x = 0 => p = 1)

\* The smaller of the device's limit and k.
LimitedTo(k) ==
    IF max_total_threads_per_threadgroup <= k
    THEN max_total_threads_per_threadgroup ELSE k

\* C12: call_reduce_contiguous that returned Ok for N elements and O outputs,
\* O >= 1 dividing N >= 1, dispatched group count (O, 1, 1) and group size
\* (next_power_of_two(min(M, ceil((N / O) / 2))), 1, 1) and bound N / O as
\* its second argument; N = 1024, O = 4, M = 256 gives size 128, count 4.
C12_TreeReductionGrid ==
    \A t \in Threads :
        (/\ Dispatched(t, {"call_reduce_contiguous"})
         /\ req[t].length >= 1 /\ req[t].aux >= 1
         /\ req[t].length % req[t].aux = 0)
        => LET n == req[t].length
               o == req[t].aux
               e == n \div o
               g == LastDispatch(t)
           IN  /\ ~g.panic
               /\ g.count = <<o, 1, 1>>
               /\ g.size = <<g.size[1], 1, 1>>
               /\ IsNextPow2(g.size[1], LimitedTo((e + 1) \div 2))
               /\ <<0, PUsize(n)>> \in cmd[t].params
               /\ <<1, PUsize(e)>> \in cmd[t].params
               /\ (n = 1024 /\ o = 4 /\ max_total_threads_per_threadgroup = 256)
                     => (g.size = <<128, 1, 1>> /\ g.count = <<4, 1, 1>>)

\* C12 witness: the reduction of 1024 elements to 4 outputs on a device of
\* limit 256 has been dispatched.
C12_Witness ==
    \E t \in Threads :
        /\ Dispatched(t, {"call_reduce_contiguous"})
        /\ req[t].length = 1024 /\ req[t].aux = 4
        /\ max_total_threads_per_threadgroup = 256
        /\ Len(cmd[t].dispatches) = 1

\* C13: call_last_softmax that returned Ok for N elements in rows of K >= 1
\* dispatched group count (N / K, 1, 1), the division rounding down, and
\* group size (next_power_of_two(min(M, K)), 1, 1); N = 4096, K = 1024,
\* M = 256 gives count 4, size 256.
C13_GroupedReductionGrid ==
    \A t \in Threads :
        (Dispatched(t, {"call_last_softmax"}) /\ req[t].aux >= 1)
        => LET n == req[t].length
               k == req[t].aux
               g == LastDispatch(t)
               c == g.count[1]
           IN  /\ ~g.panic
               /\ g.count = <<c, 1, 1>>
               /\ c * k <= n /\ n < (c + 1) * k
               /\ g.size = <<g.size[1], 1, 1>>
               /\ IsNextPow2(g.size[1], LimitedTo(k))
               /\ (n = 4096 /\ k = 1024 /\ max_total_threads_per_threadgroup = 256)
                     => (g.count = <<4, 1, 1>> /\ g.size = <<256, 1, 1>>)

\* C13 witness: the softmax of 4096 elements in rows of 1024 on a device of
\* limit 256 has been dispatched.
C13_Witness ==
    \E t \in Threads :
        /\ Dispatched(t, {"call_last_softmax"})
        /\ req[t].length = 4096 /\ req[t].aux = 1024
        /\ max_total_threads_per_threadgroup = 256
        /\ Len(cmd[t].dispatches) = 1

\* C14: whatever the inputs, the group size the two reduction entry points
\* dispatch is a power of two and not below the bound it rounds:
\* min(M, ceil(elements_per_output / 2)) for the tree reduction, min(M, K)
\* for the softmax.
C14_GroupSizeRoundedUp ==
    \A t \in Threads :
        /\ Dispatched(t, {"call_reduce_contiguous"}) =>
              LET e == req[t].length \div req[t].aux
                  p == LastDispatch(t).size[1]
              IN  p \in Pow2s /\ p >= LimitedTo((e + 1) \div 2)
        /\ Dispatched(t, {"call_last_softmax"}) =>
              LET p == LastDispatch(t).size[1]
              IN  p \in Pow2s /\ p >= LimitedTo(req[t].aux)

\* C14 witness: a reduction or a softmax whose bound (3) is no power of two
\* has been dispatched with the size 4 above it.
C14_Witness ==
    \E t \in Threads :
        /\ Dispatched(t, {"call_reduce_contiguous", "call_last_softmax"})
        /\ max_total_threads_per_threadgroup = 3
        /\ req[t].length = 6
        /\ req[t].aux = (IF req[t].op = "call_last_softmax" THEN 3 ELSE 1)
        /\ LastDispatch(t).size = <<4, 1, 1>>

\* The call has opened its encoder and bound its arguments.
Encoded(t) ==
    /\ req[t].op \in CallOps
    /\ cmd[t].scopes = req[t].cb.scopes + 1

\* The product of the extents of shape at the positions in idx (1 for none).
RECURSIVE ProductOver(_, _)
ProductOver(shape, idx) ==
    IF idx = {} THEN 1
    ELSE LET i == CHOOSE j \in idx : TRUE
         IN  shape[i] * ProductOver(shape, idx \ {i})

\* C15: call_index_select with dim < rank binds dst_el, left_size,
\* src_dim_size, right_size and ids_size, where left_size is the product of
\* the extents before dim, right_size of those after dim (1 for an empty
\* slice), src_dim_size the extent at dim and dst_el = ids_size * left_size
\* * right_size, and a call that returned Ok dispatched the linear grid over
\* dst_el; shape [2,3,4], dim 1, ids_size 5 gives 2, 4 and 40.
C15_IndexSelectSizing ==
    \A t \in Threads :
        (req[t].op = "call_index_select" /\ Encoded(t)) =>
           LET shape == req[t].shape
               rank  == Len(shape)
               dim   == req[t].dim
               left  == ProductOver(shape, {i \in 1..rank : i < dim + 1})
               right == ProductOver(shape, {i \in 1..rank : i > dim + 1})
               dst   == req[t].aux * left * right
           IN  /\ dim < rank
               /\ {<<0, PUsize(dst)>>, <<1, PUsize(left)>>,
                   <<2, PUsize(shape[dim + 1])>>, <<3, PUsize(right)>>,
                   <<4, PUsize(req[t].aux)>>} \subseteq cmd[t].params
               /\ result[t].kind = "Ok" =>
                     /\ dst >= 1
                     /\ IsLinearGrid(LastDispatch(t),
                                     max_total_threads_per_threadgroup, dst)
               /\ (shape = <<2, 3, 4>> /\ dim = 1 /\ req[t].aux = 5) =>
                     (left = 2 /\ right = 4 /\ dst = 40)

\* C15 witness: call_index_select on shape [2,3,4], dim 1, with 5 ids has
\* bound 40, 2, 3, 4 and returned Ok.
C15_Witness ==
    \E t \in Threads :
        /\ req[t].op = "call_index_select" /\ result[t].kind = "Ok"
        /\ req[t].shape = <<2, 3, 4>> /\ req[t].dim = 1 /\ req[t].aux = 5
        /\ <<0, PUsize(40)>> \in cmd[t].params
        /\ <<1, PUsize(2)>> \in cmd[t].params
        /\ <<3, PUsize(4)>> \in cmd[t].params

\* C16: for the argument list of k arguments an entry point hands to
\* set_params!, the i-th argument (from 0) is bound to slot i, each slot
\* 0..k-1 is bound exactly once and no other slot is bound, whatever the
\* kinds of the arguments.
C16_SlotsInCallOrder ==
    \A t \in Threads :
        Encoded(t) =>
           LET args == CallParams(req[t])
               k    == Len(args)
           IN  /\ \A i \in 0..(k - 1) : <<i, args[i + 1]>> \in cmd[t].params
               /\ {b[1] : b \in cmd[t].params} = 0..(k - 1)
               /\ Cardinality(cmd[t].params) = k

\* C16 witness: call_affine_strided has bound its eight arguments, of all
\* five kinds, the last (a plain buffer) to slot 7.
C16_Witness ==
    \E t \in Threads :
        /\ req[t].op = "call_affine_strided" /\ Encoded(t)
        /\ Cardinality(cmd[t].params) = 8
        /\ {b[2][1] : b \in cmd[t].params} = {"usize", "slice", "f32", "buffer"}
        /\ <<6, PBufferAt("input", "input_offset")>> \in cmd[t].params
        /\ <<7, PBuffer("output")>> \in cmd[t].params

\* ------------------------------------------------ one caller, many keys
\* ConstantValueId::Index(i) and ConstantValueId::Name(n).
Index(i) == <<"Index", i>>
Name(n) == <<"Name", n>>

\* A key of the given name with the given (id, value) pairs.
KeyWith(name, pairs) ==
    KernelKey(name,
              Some([i \in 1..Len(pairs) |->
                       [id |-> pairs[i][1], value |-> pairs[i][2]]]))

\* Keys that differ from one another in the name, in the presence of
\* constants, in the length or order of the list, in an identifier, in the
\* variant or value of a constant, among them floats and NaN.
SpecKeys ==
    {KeyFromName("cos_float"), KeyFromName("sin_float"),
     KeyWith("cos_float", <<>>),
     KeyWith("cos_float", << <<Index(0), ConstantValue("Uint", 1)>> >>),
     KeyWith("cos_float", << <<Index(0), ConstantValue("Uint", 2)>> >>),
     KeyWith("cos_float", << <<Index(1), ConstantValue("Uint", 1)>> >>),
     KeyWith("cos_float", << <<Name("x"), ConstantValue("Uint", 1)>> >>),
     KeyWith("cos_float", << <<Index(0), ConstantValue("UShort", 1)>> >>),
     KeyWith("cos_float", << <<Index(0), ConstantValue("Bool", 1)>> >>),
     KeyWith("cos_float", << <<Index(0), ConstantValue("Uint", 1)>>,
                             <<Index(1), ConstantValue("Uint", 2)>> >>),
     KeyWith("cos_float", << <<Index(1), ConstantValue("Uint", 2)>>,
                             <<Index(0), ConstantValue("Uint", 1)>> >>),
     KeyWith("cos_float", << <<Index(0), ConstantValue("Float", 1)>> >>),
     KeyWith("cos_float", << <<Index(0), ConstantValue("Float", 2)>> >>),
     KeyWith("cos_float", << <<Index(0), ConstantValue("Float", NaN)>> >>)}

KeyRequests ==
    {Req("load_pipeline", s, k, 0, <<>>, 0, 0, EmptyCmd) :
        s \in ReqSources, k \in SpecKeys}

\* The caller stops once the device has made this many pipelines.
MaxPipelines == 3

KeyStart(t) ==
    /\ Cardinality(pipesCreated) < MaxPipelines
    /\ StartWith(t, KeyRequests)

\* One thread calls load_pipeline with these keys, one call after the other,
\* on a device whose calls all succeed.
KeyNext ==
    \E t \in {Caller} :
        \/ KeyStart(t)
        \/ LP_Lock(t)
        \/ LP_Get(t)
        \/ LL_Lock(t)
        \/ LL_Get(t)
        \/ LL_NewOk(t)
        \/ LF_GetOk(t)
        \/ LP_NewOk(t)

KeySpec == Init /\ [][KeyNext]_vars

\* The keys in play: those of the cache's entries and of the calls.
KeysSeen ==
    {e.key : e \in pipelines}
    \cup {req[t].key : t \in {u \in Threads : req[u].op = "load_pipeline"}}

\* Two constants are the same: same variant, same payload.
SameValue(x, y) == x.kind = y.kind /\ x.v = y.v

\* Two keys have equal names and element-wise equal constant lists: same
\* presence, same length, and at each position the same identifier and the
\* same value.
ElementwiseSame(a, b) ==
    /\ a.name = b.name
    /\ (a.constants = None) <=> (b.constants = None)
    /\ (a.constants # None /\ b.constants # None) =>
          LET c == a.constants[1]
              d == b.constants[1]
          IN  /\ Len(c) = Len(d)
              /\ \A i \in 1..Len(c) :
                    /\ c[i].id[1] = d[i].id[1]
                    /\ c[i].id[2] = d[i].id[2]
                    /\ SameValue(c[i].value, d[i].value)

\* Every pipeline the device made has its own entry in the cache.
EachCreatedHasEntry ==
    \A c \in pipesCreated : [key |-> c.key, val |-> c.id] \in pipelines

\* C17 as claimed: two keys are equal iff their names are equal and their
\* constant lists are equal element-wise; equal keys share one cache entry
\* and keys that differ have separate entries.
C17_Original ==
    /\ \A k1, k2 \in KeysSeen : KernelKeyEq(k1, k2) <=> ElementwiseSame(k1, k2)
    /\ \A e1, e2 \in pipelines :
          ElementwiseSame(e1.key, e2.key) => e1 = e2
    /\ EachCreatedHasEntry

\* The divergence of C17 happens: one key, requested twice, has two entries
\* with two pipelines.
C17_DuplicateEntry ==
    \E e1, e2 \in pipelines :
        /\ ElementwiseSame(e1.key, e2.key)
        /\ e1.val # e2.val

\* Two keys are the same but for the payloads of their float constants.
FloatBlindSame(a, b) ==
    /\ a.name = b.name
    /\ (a.constants = None) <=> (b.constants = None)
    /\ (a.constants # None /\ b.constants # None) =>
          LET c == a.constants[1]
              d == b.constants[1]
          IN  /\ Len(c) = Len(d)
              /\ \A i \in 1..Len(c) :
                    /\ c[i].id[1] = d[i].id[1]
                    /\ c[i].id[2] = d[i].id[2]
                    /\ c[i].value.kind = d[i].value.kind
                    /\ c[i].value.kind # "Float" => c[i].value.v = d[i].value.v

\* A key holds a float constant that is NaN.
HasNaN(k) ==
    /\ k.constants # None
    /\ \E i \in 1..Len(k.constants[1]) :
          /\ k.constants[1][i].value.kind = "Float"
          /\ k.constants[1][i].value.v = NaN

\* C18 as claimed: keys that differ only in a float value hash and compare
\* equal, so a request with the second hits the entry of the first.
C18_Original ==
    /\ \A k1, k2 \in KeysSeen :
          (FloatBlindSame(k1, k2) /\ ~ElementwiseSame(k1, k2)) =>
              /\ KernelKeyHash(k1) = KernelKeyHash(k2)
              /\ KernelKeyEq(k1, k2)
    /\ \A e1, e2 \in pipelines :
          (FloatBlindSame(e1.key, e2.key) /\ ~ElementwiseSame(e1.key, e2.key))
              => e1 = e2

\* C18: keys that differ only in a float value hash alike but compare
\* unequal (they are equal only when the float values are the same and not
\* NaN), so a request with the second key misses the entry of the first and
\* the pipeline it returns was built for its own key.
C18_FloatValuesDistinguish ==
    /\ \A k1, k2 \in KeysSeen :
          FloatBlindSame(k1, k2) =>
              /\ KernelKeyHash(k1) = KernelKeyHash(k2)
              /\ KernelKeyEq(k1, k2) <=>
                    (ElementwiseSame(k1, k2) /\ ~HasNaN(k1))
    /\ \A t \in Threads :
          (req[t].op = "load_pipeline" /\ result[t].kind = "Ok") =>
              \E c \in pipesCreated :
                  /\ ElementwiseSame(c.key, req[t].key)
                  /\ c.id = result[t].val
                  /\ [key |-> c.key, val |-> c.id] \in pipelines

\* Two keys that differ only in a float value both have entries, and the
\* caller's request with the second was a miss that built a pipeline.
C18_Witness ==
    /\ \E e1, e2 \in pipelines :
          /\ FloatBlindSame(e1.key, e2.key)
          /\ ~ElementwiseSame(e1.key, e2.key)
          /\ ~HasNaN(e1.key) /\ ~HasNaN(e2.key)
          /\ req[Caller].key = e2.key
    /\ req[Caller].op = "load_pipeline"
    /\ result[Caller].kind = "Ok"
    /\ attempts[Caller].pipeline = 1

\* The caller's step out of the cache lookup of load_pipeline.
LeavesLookup(t) == pc[t] = "lp_get" /\ pc'[t] # "lp_get"

\* C19: the pipeline cache is keyed by the key alone. A load_pipeline whose
\* key has an entry returns that entry's pipeline whatever module it names:
\* it makes no device call (no function lookup, no pipeline state), does not
\* touch the library cache and loads no library.
C19_KeyedByKeyAlone ==
    [][\A t \in Threads :
          (LeavesLookup(t) /\ MapFind(pipelines, req[t].key) # {}) =>
              /\ pc'[t] = "idle"
              /\ result'[t].kind = "Ok"
              /\ result'[t].val \in {e.val : e \in MapFind(pipelines, req[t].key)}
              /\ attempts'[t] = NoAttempts
              /\ UNCHANGED <<libraries, libsCreated, pipelines, pipesCreated>>]_vars

\* A pipeline is cached for the key from a request that named one module,
\* and the caller's request with the same key and another module, whose
\* library was never loaded, returned that pipeline with no device call.
C19_Witness ==
    /\ PipelineOk(Caller)
    /\ attempts[Caller] = NoAttempts
    /\ req[Caller].source \notin DOMAIN libraries
    /\ \E e \in MapFind(pipelines, req[Caller].key) :
          /\ e.val = result[Caller].val
          /\ \E c \in pipesCreated : c.key = e.key /\ c.id = e.val

\* ------------------------------------------------ one caller, all modules
\* One thread loads every module of enum Source, directly, through
\* load_pipeline and through call_mfa_gemm; the device may refuse a library.
LibRequests ==
    {Req("load_library", s, NoKey, 0, <<>>, 0, 0, EmptyCmd) : s \in Source}
    \cup {Req("load_pipeline", s, KeyFromName("cos_float"), 0, <<>>, 0, 0,
              EmptyCmd) : s \in Source}
    \cup {CallReq("call_mfa_gemm", "hgemm", 0, <<2>>, 0, 0, EmptyCmd)}
    \cup {CallReq("call_unary_contiguous", "cos_float", 3, <<>>, 0, 0, EmptyCmd)}

LibNext ==
    \E t \in {Caller} :
        \/ StartWith(t, LibRequests)
        \/ LP_Lock(t)
        \/ LP_Get(t)
        \/ LL_Lock(t)
        \/ LL_Get(t)
        \/ LL_NewOk(t)
        \/ LL_NewErr(t)
        \/ LF_GetOk(t)
        \/ LP_NewOk(t)
        \/ Encode(t)
        \/ Dispatch(t)

LibSpec == Init /\ [][LibNext]_vars

\* The device call load_library makes for a module: new_library_with_data
\* for a blob, new_library_with_source for text.
PathOf(source) == IF source = "MetalFlashAttention" THEN "Data" ELSE "Source"

\* C20: the module alone decides the path. Every library made for
\* MetalFlashAttention was loaded from the blob and every library made for
\* one of the other seven modules was compiled from text, a refused load
\* reports the path of its module, and call_mfa_gemm asks for
\* MetalFlashAttention.
C20_PathByModule ==
    /\ \A c \in libsCreated : c.def = PathOf(c.source)
    /\ \A t \in Threads :
          (result[t].kind = "Err" /\ result[t].err = "LoadLibraryError") =>
              result[t].mode =
                  (IF PathOf(req[t].source) = "Data" THEN "binary_load"
                   ELSE "source_compile")
    /\ \A t \in Threads :
          req[t].op = "call_mfa_gemm" => req[t].source = "MetalFlashAttention"

\* All eight modules have been loaded, each by its own path, and the blob
\* was loaded by a call_mfa_gemm that went on to dispatch.
C20_Witness ==
    /\ {c.source : c \in libsCreated} = Source
    /\ \E c \in libsCreated : c.def = "Data"
    /\ \E c \in libsCreated : c.def = "Source"
    /\ req[Caller].op = "call_mfa_gemm"
    /\ result[Caller].kind = "Ok"
    /\ attempts[Caller].library = 1

\* ------------------------------------------------ the dispatch protocol
\* Where a call_* entry point is: inside load_pipeline, between the binding
\* of its arguments and the dispatch, or returned Ok.
Loading(t) == req[t].op \in CallOps /\ pc[t] \in LoadPcs
Bound(t) == req[t].op \in CallOps /\ pc[t] = "dispatch"
ReturnedOk(t) == req[t].op \in CallOps /\ result[t].kind = "Ok"

\* The encoder calls the thread's call has made on its command buffer.
OwnLog(t) ==
    SubSeq(cmd[t].log, Len(req[t].cb.log) + 1, Len(cmd[t].log))

\* log opens a scope, sets the pipeline and binds k arguments, in that order.
OpensAndBinds(log, k) ==
    /\ Len(log) >= k + 2
    /\ log[1] = "new_compute_command_encoder"
    /\ log[2] = "set_compute_pipeline_state"
    /\ \A i \in 3..(k + 2) : log[i] = "set_param"

\* C21: a call_* entry point makes no encoder call before load_pipeline has
\* returned; it then opens one scope, sets the pipeline it obtained and binds
\* all its arguments; and a call that returned Ok has, after these, recorded
\* one dispatch (of the grid it computed) and ended the scope, so that the
\* scope it opened is closed and it opened no other.
C21_DispatchProtocol ==
    \A t \in Threads :
        LET k == Len(CallParams(req[t]))
        IN  /\ Loading(t) => cmd[t] = req[t].cb
            /\ Bound(t) =>
                  /\ OpensAndBinds(OwnLog(t), k) /\ Len(OwnLog(t)) = k + 2
                  /\ cmd[t].open = req[t].cb.open + 1
                  /\ cmd[t].dispatches = req[t].cb.dispatches
            /\ ReturnedOk(t) =>
                  /\ OpensAndBinds(OwnLog(t), k) /\ Len(OwnLog(t)) = k + 4
                  /\ OwnLog(t)[k + 3] = "dispatch_thread_groups"
                  /\ OwnLog(t)[k + 4] = "end_encoding"
                  /\ cmd[t].scopes = req[t].cb.scopes + 1
                  /\ cmd[t].open = req[t].cb.open
                  /\ cmd[t].pipeline \in
                        {e.val : e \in MapFind(pipelines, req[t].key)}
                  /\ cmd[t].params = set_params(CallParams(req[t]))
                  /\ cmd[t].dispatches =
                        Append(req[t].cb.dispatches,
                               CallGrid(req[t], max_total_threads_per_threadgroup))

\* call_where_cond_strided returned Ok on a command buffer that already held
\* a closed scope: ten arguments bound, one more dispatch, nothing left open.
C21_Witness ==
    \E t \in Threads :
        /\ req[t].op = "call_where_cond_strided" /\ ReturnedOk(t)
        /\ req[t].cb = UsedCmd
        /\ Len(OwnLog(t)) = 14
        /\ Len(cmd[t].dispatches) = 2
        /\ cmd[t].scopes = 2 /\ cmd[t].open = 0

\* ------------------------------------------------ two callers, side by side
\* Two threads on one device: the first calls the strided entry points, the
\* second the contiguous ones and call_mfa_gemm; every device call succeeds.
Peer == CHOOSE t \in Threads : t # Caller

PairShapes == {<<>>, <<2, 3>>, <<2, 3, 4>>, <<3, 0>>}
PairLengths == {0, 1, 6, 24}

StridedRequests ==
    {CallReq(op, "cos_float", 0, sh, 0, 0, EmptyCmd) :
        op \in {"call_unary_strided", "call_binary_strided",
                "call_cast_strided", "call_affine_strided"},
        sh \in PairShapes}

FlatRequests ==
    {CallReq(op, "cos_float", n, <<>>, 0, 0, EmptyCmd) :
        op \in ContiguousOps, n \in PairLengths}
    \cup {CallReq("call_mfa_gemm", "cos_float", 0, sh, 0, 0, EmptyCmd) :
             sh \in PairShapes}

PairNext ==
    \/ StartWith(Caller, StridedRequests)
    \/ StartWith(Peer, FlatRequests)
    \/ \E t \in Threads :
          \/ LP_Lock(t)
          \/ LP_Get(t)
          \/ LL_Lock(t)
          \/ LL_Get(t)
          \/ LL_NewOk(t)
          \/ LF_GetOk(t)
          \/ LP_NewOk(t)
          \/ Encode(t)
          \/ Dispatch(t)

PairSpec == GridInit /\ [][PairNext]_vars

\* The thread's call has bound its arguments.
HasBound(t) == Bound(t) \/ ReturnedOk(t)

\* C22: call_mfa_gemm and call_unary_strided called with the same shape
\* (and the same strides, offsets and buffers) bind the same arguments to
\* the same slots and, when they return Ok, have recorded the same encoder
\* calls and the same dispatch, the linear grid over product(shape); the
\* modules they asked for differ.
C22_GemmLikeUnaryStrided ==
    \A t, u \in Threads :
        (/\ req[t].op = "call_unary_strided"
         /\ req[u].op = "call_mfa_gemm"
         /\ req[t].shape = req[u].shape) =>
            /\ req[t].source = "Unary"
            /\ req[u].source = "MetalFlashAttention"
            /\ (HasBound(t) /\ HasBound(u)) => cmd[t].params = cmd[u].params
            /\ (ReturnedOk(t) /\ ReturnedOk(u)) =>
                  /\ cmd[t].log = cmd[u].log
                  /\ cmd[t].dispatches = cmd[u].dispatches
                  /\ IsLinearGrid(LastDispatch(u),
                                  max_total_threads_per_threadgroup,
                                  ProductOver(req[u].shape,
                                              1..Len(req[u].shape)))

\* Both calls returned Ok for shape [2,3,4] on a device of limit 4: six
\* bindings each and the grid of 6 groups of 4.
C22_Witness ==
    /\ req[Caller].op = "call_unary_strided" /\ ReturnedOk(Caller)
    /\ req[Peer].op = "call_mfa_gemm" /\ ReturnedOk(Peer)
    /\ req[Caller].shape = <<2, 3, 4>> /\ req[Peer].shape = <<2, 3, 4>>
    /\ Cardinality(cmd[Peer].params) = 6
    /\ <<0, PUsize(24)>> \in cmd[Peer].params
    /\ LastDispatch(Peer) = Grid(<<6, 1, 1>>, <<4, 1, 1>>)

\* The number of elements of a shape.
Elements(shape) == ProductOver(shape, 1..Len(shape))

\* C23: in each family with both forms (unary, binary, cast, affine) the
\* strided entry point binds length = product(shape) to slot 0, as the
\* contiguous one binds its N, and for N = product(shape) on the same device
\* the two calls that returned Ok recorded exactly the same grid.
C23_StridedLikeContiguous ==
    \A t, u \in Threads :
        /\ (req[t].op \in StridedOps /\ HasBound(t)) =>
              <<0, PUsize(Elements(req[t].shape))>> \in cmd[t].params
        /\ (req[u].op \in ContiguousOps /\ HasBound(u)) =>
              <<0, PUsize(req[u].length)>> \in cmd[u].params
        /\ (/\ req[t].op \in StridedOps
            /\ req[u].op \in ContiguousOps
            /\ req[t].source = req[u].source
            /\ req[u].length = Elements(req[t].shape)
            /\ ReturnedOk(t) /\ ReturnedOk(u)) =>
                cmd[t].dispatches = cmd[u].dispatches

\* call_affine_strided over [2,3,4] and call_affine over 24 elements both
\* returned Ok on a device of limit 4, each with the grid of 6 groups of 4.
C23_Witness ==
    /\ req[Caller].op = "call_affine_strided" /\ ReturnedOk(Caller)
    /\ req[Peer].op = "call_affine" /\ ReturnedOk(Peer)
    /\ req[Caller].shape = <<2, 3, 4>> /\ req[Peer].length = 24
    /\ <<0, PUsize(24)>> \in cmd[Caller].params
    /\ cmd[Caller].dispatches = <<Grid(<<6, 1, 1>>, <<4, 1, 1>>)>>
    /\ cmd[Peer].dispatches = <<Grid(<<6, 1, 1>>, <<4, 1, 1>>)>>

\* ------------------------------------------------ the critical sections
\* Where a thread is between the lookup and the insert (or the return) of
\* load_pipeline, and of load_library.
PipelineSection == {"lp_get"} \cup CompilePcs
LibrarySection == {"ll_get", "ll_new"}
InPipelineSection(t) == AsksPipeline(t) /\ pc[t] \in PipelineSection
InLibrarySection(t) == pc[t] \in LibrarySection

\* C24: from its lookup to its insert a thread holds the write lock of the
\* cache, so at most one thread is between lookup and insert of either
\* cache: one compilation in flight per cache, and while a compile for one
\* key is in flight no other thread is at the lookup of the pipeline cache,
\* for whatever key.  A cache changes only in a step of the lock's holder.
C24_OneCriticalSection ==
    [][/\ \A t \in Threads :
             /\ InPipelineSection(t) => pipeLock.holder = t
             /\ InLibrarySection(t) => libLock.holder = t
       /\ \A t, u \in Threads :
             /\ (InPipelineSection(t) /\ InPipelineSection(u)) => t = u
             /\ (InLibrarySection(t) /\ InLibrarySection(u)) => t = u
       /\ pipelines' # pipelines =>
             \E t \in Threads : pipeLock.holder = t /\ pc'[t] # pc[t]
       /\ libraries' # libraries =>
             \E t \in Threads : libLock.holder = t /\ pc'[t] # pc[t]]_vars

\* One thread is creating the pipeline for a key while the other, asking
\* for another key, waits for the lock.
C24_Witness ==
    \E t, u \in Threads :
        /\ pc[t] = "lp_new" /\ pipeLock.holder = t
        /\ pc[u] = "lp_lock" /\ AsksPipeline(u)
        /\ ~KernelKeyEq(req[t].key, req[u].key)

\* ------------------------------------------------ fair threads
\* Two threads mix load_library, load_pipeline and call_*; every device call
\* may succeed, fail or unwind.  A thread inside a call keeps running, and a
\* thread that waits for a lock that is free again and again gets it.
LiveRequests ==
    {Req("load_library", "Unary", NoKey, 0, <<>>, 0, 0, EmptyCmd)}
    \cup {Req("load_pipeline", s, KeyFromName("cos_float"), 0, <<>>, 0, 0,
              EmptyCmd) : s \in ReqSources}
    \cup {CallReq("call_unary_contiguous", "cos_float", n, <<>>, 0, 0, EmptyCmd) :
             n \in {0, 3}}

LiveNext ==
    \E t \in Threads :
        \/ StartWith(t, LiveRequests)
        \/ LP_Lock(t)
        \/ LP_Get(t)
        \/ LL_Lock(t)
        \/ LL_Get(t)
        \/ LL_NewOk(t)
        \/ LL_NewErr(t)
        \/ LL_NewPanic(t)
        \/ LF_GetOk(t)
        \/ LF_GetErr(t)
        \/ LF_GetPanic(t)
        \/ LP_NewOk(t)
        \/ LP_NewErr(t)
        \/ LP_NewPanic(t)
        \/ Encode(t)
        \/ Dispatch(t)

Fairness == \A t \in Threads : SF_vars(Step(t))

LiveSpec == Init /\ [][LiveNext]_vars /\ Fairness

\* C25: a thread takes the pipeline-cache lock only while it holds no lock,
\* the library-cache lock only with none or the pipeline-cache lock, and
\* holds the library-cache lock only inside load_library; and every call
\* that is under way eventually ends: it returns, or unwinds where a device
\* call or the call's own arithmetic aborts.
C25_NoDeadlock ==
    /\ [](\A t \in Threads :
             /\ libLock.holder = t => InLibrarySection(t)
             /\ pipeLock.holder = t => InPipelineSection(t)
             /\ pc[t] = "lp_lock" =>
                   (libLock.holder # t /\ pipeLock.holder # t)
             /\ pc[t] = "ll_lock" => libLock.holder # t)
    /\ \A t \in Threads : InCall(t) ~> ~InCall(t)

\* A thread waits for the library-cache lock holding the pipeline-cache
\* lock while the other thread, in a direct load_library, holds the
\* library-cache lock.
C25_Witness ==
    \E t, u \in Threads :
        /\ pc[t] = "ll_lock" /\ pipeLock.holder = t
        /\ req[u].op = "load_library" /\ libLock.holder = u

\* ------------------------------------------------ hits and failures
\* The thread's key has an entry in the pipeline cache.
Cached(t) == MapFind(pipelines, req[t].key) # {}

\* C26: up to its lookup load_pipeline has not touched the library cache,
\* and a lookup that finds the key ends the call in that step, whatever the
\* state of the library cache's lock (free, held by another thread or
\* poisoned): the cached pipeline is returned (kept, inside a call_*), no
\* device call was made, and both caches, the library lock and the sets of
\* device objects are unchanged.
C26_HitSkipsLibraryCache ==
    [][\A t \in Threads :
          /\ (AsksPipeline(t) /\ pc[t] \in {"lp_lock", "lp_get"}) =>
                (libLock.holder # t /\ attempts[t] = NoAttempts)
          /\ (LeavesLookup(t) /\ Cached(t)) =>
                /\ IF req[t].op = "load_pipeline"
                   THEN /\ pc'[t] = "idle"
                        /\ result'[t].kind = "Ok"
                        /\ result'[t].val \in
                              {e.val : e \in MapFind(pipelines, req[t].key)}
                   ELSE /\ pc'[t] = "encode"
                        /\ local'[t].pipeline \in
                              {e.val : e \in MapFind(pipelines, req[t].key)}
                /\ attempts'[t] = NoAttempts
                /\ pipeLock'.holder = NoThread
                /\ UNCHANGED <<libraries, pipelines, libLock, libsCreated,
                               pipesCreated>>]_vars

\* A thread is at the lookup with its key cached while the library cache is
\* poisoned, and returns the cached pipeline from there.
C26_Witness ==
    \E t \in Threads :
        /\ req[t].op = "load_pipeline" /\ pc[t] = "lp_get" /\ Cached(t)
        /\ libLock.poisoned
        /\ ENABLED LP_Get(t)

\* The step in which the thread's call returns an error.
ReturnsErr(t) == result[t].kind # "Err" /\ result'[t].kind = "Err"

\* The step is one of thread t.
Moves(t) == pc'[t] # pc[t]

\* C27: the step in which load_pipeline (alone or inside a call_*) returns
\* an error leaves the pipeline cache unchanged, and the step in which
\* load_library returns an error leaves the library cache unchanged; a call
\* changes a cache only in the step in which it returns Ok, so a failed call
\* never changed it; and a lookup that finds no entry, after a failure as
\* at any other time, goes on to the device call again.
C27_FailuresNotCached ==
    [][\A t \in Threads :
          /\ (ReturnsErr(t) /\ AsksPipeline(t)) => pipelines' = pipelines
          /\ (ReturnsErr(t) /\ req[t].op = "load_library") =>
                libraries' = libraries
          /\ (Moves(t) /\ pipelines' # pipelines) =>
                /\ pc[t] = "lp_new" /\ pc'[t] \in {"idle", "encode"}
                /\ result'[t].kind # "Err"
          /\ (Moves(t) /\ libraries' # libraries) =>
                /\ pc[t] = "ll_new" /\ pc'[t] \in {"idle", "lf_get"}
                /\ result'[t].kind # "Err"
          /\ (LeavesLookup(t) /\ ~Cached(t)) => pc'[t] = "ll_lock"
          /\ (pc[t] = "ll_get" /\ Moves(t)
                /\ req[t].source \notin DOMAIN libraries) =>
                pc'[t] = "ll_new"]_vars

\* A load_pipeline failed at function lookup or pipeline creation, its key
\* has no entry, and another call for that key is at the pipeline-creation
\* device call again.
C27_Witness ==
    \E t, u \in Threads :
        /\ t # u
        /\ req[t].op = "load_pipeline" /\ result[t].kind = "Err"
        /\ result[t].err \in {"LoadFunctionError", "FailedToCreatePipeline"}
        /\ KernelKeyEq(req[t].key, req[u].key)
        /\ ~Cached(t)
        /\ AsksPipeline(u) /\ pc[u] = "lp_new"
        /\ attempts[u].function = 1

\* The errors of load_pipeline that come after load_library has returned.
AfterLibrary == {"LoadFunctionError", "FailedToCreatePipeline"}

\* C28: when load_pipeline returns LoadFunctionError or
\* FailedToCreatePipeline the module's library is in the library cache and
\* stays there (that step changes neither the cache nor the set of libraries
\* made), whether or not this call made it; no step takes a library out or
\* replaces it; and a load_library that finds the module cached makes no
\* device call.
C28_LibrarySurvivesFailure ==
    [][/\ \A t \in Threads :
             /\ (ReturnsErr(t) /\ result'[t].err \in AfterLibrary) =>
                   /\ req[t].source \in DOMAIN libraries
                   /\ libraries' = libraries
                   /\ libsCreated' = libsCreated
             /\ (pc[t] = "ll_get" /\ Moves(t)
                   /\ req[t].source \in DOMAIN libraries) =>
                   /\ pc'[t] # "ll_new"
                   /\ attempts'[t].library = 0
                   /\ libsCreated' = libsCreated
       /\ \A s \in DOMAIN libraries :
             s \in DOMAIN libraries' /\ libraries'[s] = libraries[s]]_vars

\* A load_pipeline made the module's library and then failed at function
\* lookup or pipeline creation; another call for the same module is past
\* load_library with that library and without a device call for it.
C28_Witness ==
    \E t, u \in Threads :
        /\ t # u
        /\ req[t].op = "load_pipeline" /\ result[t].kind = "Err"
        /\ result[t].err \in AfterLibrary
        /\ attempts[t].library = 1
        /\ req[u].source = req[t].source
        /\ AsksPipeline(u) /\ pc[u] = "lf_get"
        /\ attempts[u].library = 0
        /\ local[u].lib = libraries[req[t].source]

\* The step in which load_library or load_pipeline returns, Ok or Err, to
\* the thread or to the call_* entry point around it.
Returns(t) == pc[t] \in LoadPcs /\ pc'[t] \in {"idle", "encode"}

\* A lock's poison flag is set in this step.
PoisonedNow(lock, lockNext) == ~lock.poisoned /\ lockNext.poisoned

\* C29: when load_library or load_pipeline returns, Ok or Err, the thread
\* holds neither lock and neither poison flag has changed; a thread outside
\* the two functions holds no lock, and one outside load_library does not
\* hold the library cache's; a poison flag is set only in a step in
\* which a thread unwinds; and LockError is returned only for a lock that
\* was already poisoned.
C29_ReturnsReleaseLocks ==
    [][/\ \A t \in Threads :
             /\ Returns(t) =>
                   /\ libLock'.holder # t /\ pipeLock'.holder # t
                   /\ libLock'.poisoned = libLock.poisoned
                   /\ pipeLock'.poisoned = pipeLock.poisoned
             /\ pc[t] \notin LoadPcs =>
                   (libLock.holder # t /\ pipeLock.holder # t)
             /\ pc[t] \notin LibrarySection => libLock.holder # t
             /\ (ReturnsErr(t) /\ result'[t].err = "LockError") =>
                   (libLock.poisoned \/ pipeLock.poisoned)
       /\ (PoisonedNow(libLock, libLock') \/ PoisonedNow(pipeLock, pipeLock')) =>
             \E u \in Threads : pc[u] # "panicked" /\ pc'[u] = "panicked"]_vars

\* A load_pipeline that held both locks returned an error of the device,
\* both locks are free and unpoisoned, and the other thread's load_pipeline
\* has made a pipeline and returned Ok.
C29_Witness ==
    \E t, u \in Threads :
        /\ t # u
        /\ req[t].op = "load_pipeline" /\ result[t].kind = "Err"
        /\ result[t].err \in AfterLibrary \cup {"LoadLibraryError"}
        /\ attempts[t].library = 1
        /\ libLock = Unlocked /\ pipeLock = Unlocked
        /\ PipelineOk(u) /\ attempts[u].pipeline = 1

\* ------------------------------------------------ group size and limit
ReductionOps == {"call_reduce_contiguous", "call_last_softmax"}

\* C30 as claimed: the group size a reduction entry point dispatched never
\* exceeds the limit the pipeline reports, whatever the limit and the sizes.
C30_Original ==
    \A t \in Threads :
        Dispatched(t, ReductionOps) =>
            LastDispatch(t).size[1] <= max_total_threads_per_threadgroup

\* The divergence of C30 happens: on a pipeline of limit 3 the softmax over
\* rows of 3 was dispatched with groups of 4 threads.
C30_OverLimit ==
    \E t \in Threads :
        /\ Dispatched(t, {"call_last_softmax"})
        /\ req[t].aux = 3
        /\ max_total_threads_per_threadgroup = 3
        /\ LastDispatch(t).size = <<4, 1, 1>>

\* ------------------------------------------------ linear grid bounds
\* C31: for every element count N >= 1 and device limit M >= 1, in the step
\* in which a linear entry point leaves its grid computation the grid of
\* linear_split is recorded (nothing aborts), its group width lies in 1..M,
\* the groups cover all N elements, no group lies wholly past the N-th
\* element, and height and depth are 1 in both sizes.
C31_LinearSplitBounds ==
    [][\A t \in Threads :
          (pc[t] = "dispatch" /\ pc'[t] # "dispatch"
             /\ req[t].op \in LinearOps
             /\ LinearLength(req[t]) >= 1
             /\ max_total_threads_per_threadgroup >= 1) =>
             /\ pc'[t] = "idle"
             /\ Len(cmd'[t].dispatches) = Len(cmd[t].dispatches) + 1
             /\ LET n == LinearLength(req[t])
                    m == max_total_threads_per_threadgroup
                    grid == cmd'[t].dispatches[Len(cmd'[t].dispatches)]
                    count == grid.count
                    size == grid.size
                IN  /\ 1 <= size[1]
                    /\ size[1] <= m
                    /\ count[1] * size[1] >= n
                    /\ (count[1] - 1) * size[1] < n
                    /\ count[2] = 1 /\ count[3] = 1
                    /\ size[2] = 1 /\ size[3] = 1]_vars

\* C31 witness: call_index_select returned Ok for 15 output elements on a
\* device of limit 4: four groups of four threads, the last one partly past
\* the end.
C31_Witness ==
    \E t \in Threads :
        /\ Dispatched(t, {"call_index_select"})
        /\ LinearLength(req[t]) = 15
        /\ max_total_threads_per_threadgroup = 4
        /\ LastDispatch(t).count = <<4, 1, 1>>
        /\ LastDispatch(t).size = <<4, 1, 1>>

\* ------------------------------------------------ zero elements
\* The thread's call aborted inside its encoding scope: the scope it opened
\* on the command buffer it was handed is still open.
AbortedInScope(t) ==
    pc[t] = "panicked" /\ cmd[t].open = req[t].cb.open + 1

\* C32 as stated: no call of a linear entry point, for any element count
\* N >= 0, aborts between opening its encoding scope and ending it.
C32_Original ==
    \A t \in Threads :
        req[t].op \in LinearOps => ~AbortedInScope(t)

\* C32 refuted: call_unary_contiguous with length 0 has loaded its pipeline,
\* opened a scope and bound its three arguments, and then aborted in
\* linear_split: no dispatch is recorded, the scope is never ended and
\* nothing is returned.
C32_AbortsOnZero ==
    \E t \in Threads :
        /\ req[t].op = "call_unary_contiguous"
        /\ req[t].length = 0
        /\ AbortedInScope(t)
        /\ result[t].kind = "None"
        /\ cmd[t].pipeline # NoId
        /\ cmd[t].params = set_params(CallParams(req[t]))
        /\ cmd[t].dispatches = req[t].cb.dispatches
        /\ cmd[t].log = req[t].cb.log \o EncoderSteps(3)

\* ------------------------------------------------ zero divisors
\* Two threads on one registry: the first calls call_reduce_contiguous, the
\* second call_last_softmax, with divisors that are zero or not, on fresh
\* and used command buffers; every device call may succeed, fail or unwind.
ZeroLengths == {0, 4}
ZeroDivisors == {0, 2}

ReduceRequests ==
    {CallReq("call_reduce_contiguous", "fast_sum_float", n, <<>>, o, 0, cb) :
        n \in ZeroLengths, o \in ZeroDivisors, cb \in ReqBuffers}

SoftmaxRequests ==
    {CallReq("call_last_softmax", "softmax_float", n, <<>>, k, 0, cb) :
        n \in ZeroLengths, k \in ZeroDivisors, cb \in ReqBuffers}

ZeroNext ==
    \/ StartWith(Caller, ReduceRequests)
    \/ StartWith(Peer, SoftmaxRequests)
    \/ \E t \in Threads :
          \/ LP_Lock(t)
          \/ LP_Get(t)
          \/ LL_Lock(t)
          \/ LL_Get(t)
          \/ LL_NewOk(t)
          \/ LL_NewErr(t)
          \/ LL_NewPanic(t)
          \/ LF_GetOk(t)
          \/ LF_GetErr(t)
          \/ LF_GetPanic(t)
          \/ LP_NewOk(t)
          \/ LP_NewErr(t)
          \/ LP_NewPanic(t)
          \/ Encode(t)
          \/ Dispatch(t)

ZeroSpec == Init /\ [][ZeroNext]_vars

\* The thread's call is the entry point op with a zero divisor: out_length
\* of call_reduce_contiguous, elements_to_sum of call_last_softmax.
ByZero(t, op) == req[t].op = op /\ req[t].aux = 0

\* The scope the thread's call opened on its command buffer: the pipeline
\* set, the four arguments bound, nothing dispatched, not ended.
ScopeLeftOpen(c, t) ==
    /\ c.scopes = req[t].cb.scopes + 1
    /\ c.open = req[t].cb.open + 1
    /\ c.pipeline = local[t].pipeline
    /\ c.params = set_params(CallParams(req[t]))
    /\ c.dispatches = req[t].cb.dispatches
    /\ c.log = req[t].cb.log \o EncoderSteps(4)

\* C33: call_reduce_contiguous with out_length = 0, once load_pipeline has
\* returned its pipeline, aborts in its next step with the pipeline cached
\* and the command buffer as it was handed over (no scope opened);
\* call_last_softmax with elements_to_sum = 0 first opens its scope and
\* binds its arguments and aborts in the step after, leaving the scope open
\* and nothing dispatched; in both aborts the thread holds no cache lock
\* and both locks, poison flags included, stay as they were.
C33_ZeroDivisorAborts ==
    [][\A t \in Threads :
          /\ (ByZero(t, "call_reduce_contiguous")
                 /\ pc[t] = "encode" /\ Moves(t)) =>
                /\ pc'[t] = "panicked"
                /\ Cached(t)
                /\ pipelines' = pipelines
                /\ cmd[t] = req[t].cb
                /\ cmd'[t] = req[t].cb
                /\ libLock' = libLock /\ pipeLock' = pipeLock
                /\ libLock.holder # t /\ pipeLock.holder # t
          /\ (ByZero(t, "call_last_softmax")
                 /\ pc[t] = "encode" /\ Moves(t)) =>
                /\ pc'[t] = "dispatch"
                /\ cmd[t] = req[t].cb
                /\ ScopeLeftOpen(cmd'[t], t)
          /\ (ByZero(t, "call_last_softmax")
                 /\ pc[t] = "dispatch" /\ Moves(t)) =>
                /\ pc'[t] = "panicked"
                /\ Cached(t)
                /\ ScopeLeftOpen(cmd[t], t)
                /\ cmd'[t] = cmd[t]
                /\ libLock' = libLock /\ pipeLock' = pipeLock
                /\ libLock.holder # t /\ pipeLock.holder # t]_vars

\* C33 witness: both calls have aborted on one registry, the reduction
\* with its command buffer untouched, the softmax with its scope open; both
\* pipelines are cached and both locks are free and unpoisoned.
C33_Witness ==
    \E t, u \in Threads :
        /\ ByZero(t, "call_reduce_contiguous") /\ pc[t] = "panicked"
        /\ ByZero(u, "call_last_softmax") /\ pc[u] = "panicked"
        /\ Cached(t) /\ Cached(u)
        /\ cmd[t] = req[t].cb
        /\ req[u].cb = UsedCmd
        /\ ScopeLeftOpen(cmd[u], u)
        /\ libLock = Unlocked /\ pipeLock = Unlocked

\* ------------------------------------------------ keys of the entry points
\* Two threads use one registry through call_* alone: entry points of three
\* modules, two function names, every device call free to succeed, fail or
\* unwind.
EntryNames == {"cos_float", "softmax_float"}

EntryRequests ==
    {CallReq("call_unary_contiguous", n, 3, <<>>, 0, 0, EmptyCmd) :
        n \in EntryNames}
    \cup {CallReq("call_last_softmax", n, 4, <<>>, 2, 0, EmptyCmd) :
             n \in EntryNames}
    \cup {CallReq("call_mfa_gemm", n, 0, <<2, 3>>, 0, 0, EmptyCmd) :
             n \in EntryNames}

EntryNext ==
    \E t \in Threads :
        \/ StartWith(t, EntryRequests)
        \/ LP_Lock(t)
        \/ LP_Get(t)
        \/ LL_Lock(t)
        \/ LL_Get(t)
        \/ LL_NewOk(t)
        \/ LL_NewErr(t)
        \/ LL_NewPanic(t)
        \/ LF_GetOk(t)
        \/ LF_GetErr(t)
        \/ LF_GetPanic(t)
        \/ LP_NewOk(t)
        \/ LP_NewErr(t)
        \/ LP_NewPanic(t)
        \/ Encode(t)
        \/ Dispatch(t)

EntrySpec == Init /\ [][EntryNext]_vars

\* C34: in a registry used through call_* alone every key of a call and of
\* a cache entry is a function name with constants absent, so no constant,
\* float or other, is hashed or compared in a lookup, and the pipeline
\* cache holds at most one entry per function name.
C34_NameOnlyKeys ==
    /\ \A t \in Threads : req[t].op \in CallOps => req[t].key.constants = None
    /\ \A e \in pipelines : e.key.constants = None
    /\ \A e, f \in pipelines : e.key.name = f.key.name => e = f
    /\ Cardinality(pipelines) <= Cardinality(EntryNames)

\* C34 witness: both names are cached, one entry each, after two entry
\* points of different modules returned Ok for the same name, the second
\* from the cache without a device call.
C34_Witness ==
    \E t, u \in Threads :
        /\ ReturnedOk(t) /\ ReturnedOk(u)
        /\ req[t].op # req[u].op
        /\ req[t].key = req[u].key
        /\ attempts[u] = NoAttempts
        /\ Cardinality(pipelines) = 2
        /\ {e.key.name : e \in pipelines} = EntryNames

====
